---------------------------- MODULE Spec2Model ----------------------------
(***************************************************************************)
(* A model of the drum machine: the DrumMachine orchestrator, the          *)
(* SequencerManager grid and playback clock, the BeatStorage collection    *)
(* and the share-link codec (optimizeBeatData / expandBeatData).           *)
(*                                                                         *)
(* JavaScript objects are records; a property an object does not have is   *)
(* a field the record does not have.  null is the record Null.  An         *)
(* exception is a result record with ok = FALSE.                           *)
(***************************************************************************)
EXTENDS Integers, Sequences, FiniteSets, TLC

(***************************************************************************)
(* Program constants (config/constants.js).                                *)
(***************************************************************************)
TEMPO_DEFAULT == 120
TEMPO_MIN == 60
TEMPO_MAX == 200
DEFAULT_LENGTH == 16
MIN_LENGTH == 4
MAX_LENGTH == 32
PATTERN_OPTIONS == <<4, 8, 16, 32>>
DRUM_TYPES ==
    <<"kick", "snare", "hihat", "crash", "tom1", "tom2", "ride", "clap", "bass">>

DrumTypeSet == {DRUM_TYPES[i] : i \in 1..Len(DRUM_TYPES)}
AllowedLengths == {PATTERN_OPTIONS[i] : i \in 1..Len(PATTERN_OPTIONS)}

(***************************************************************************)
(* Bounds of the model: how many voices and how many step positions the    *)
(* inputs range over.  The positions are taken from StepOrder, which       *)
(* mixes positions below the shortest length, between the lengths and      *)
(* beyond the default length.                                              *)
(***************************************************************************)
MaxInputVoices == 2
MaxInputSteps == 2
MaxPlayVoices == 1
MaxPlaySteps == 1
StepOrder == <<0, 5, 17, 3, 31, 9, 16, 15>>

InputVoices == {DRUM_TYPES[i] : i \in 1..MaxInputVoices}
InputSteps == {StepOrder[i] : i \in 1..MaxInputSteps}
PlayVoices == {DRUM_TYPES[i] : i \in 1..MaxPlayVoices}
PlaySteps == {StepOrder[i] : i \in 1..MaxPlaySteps}
InputTempos == {TEMPO_MIN, TEMPO_DEFAULT, 140, TEMPO_MAX}

(***************************************************************************)
(* null, and the step arrays.  A step array is a sequence of booleans;     *)
(* JavaScript's 0-based index i is position i + 1.                         *)
(***************************************************************************)
Null == [null |-> TRUE]
IsNull(x) == "null" \in DOMAIN x

AllFalse(n) == [i \in 1..n |-> FALSE]

\* createDefaultBeat: a fresh copy of DEFAULT_BEAT.
createDefaultBeat ==
    [tempo |-> TEMPO_DEFAULT,
     patternLength |-> DEFAULT_LENGTH,
     sequencer |-> [v \in DrumTypeSet |-> AllFalse(DEFAULT_LENGTH)]]

(***************************************************************************)
(* The share-link codec.                                                   *)
(***************************************************************************)
\* A listing of every index, active or not.
AllIndices(pattern) == [i \in 1..Len(pattern) |-> i - 1]

\* pattern.map((step, index) => (step ? index : -1)).filter(i => i !== -1)
ActiveIndices(pattern) ==
    SelectSeq([i \in 1..Len(pattern) |-> IF pattern[i] THEN i - 1 ELSE -1],
              LAMBDA x : x # -1)

\* pattern.some((step) => step === true)
HasActive(pattern) == \E i \in 1..Len(pattern) : pattern[i]

\* DrumMachine.optimizeBeatData: the tempo and, for every voice that has an
\* active step, the indices of its active steps.  The pattern length is not
\* copied.
optimizeBeatData(beat) ==
    IF IsNull(beat) \/ "sequencer" \notin DOMAIN beat
    THEN beat
    ELSE [tempo |-> beat.tempo,
          sequencer |->
              [v \in {w \in DOMAIN beat.sequencer : HasActive(beat.sequencer[w])}
                  |-> ActiveIndices(beat.sequencer[v])]]

\* new Array(patternLength).fill(false), then true at every listed index
\* that lies in [0, patternLength).
ExpandPattern(indices, patternLength) ==
    [i \in 1..patternLength |->
        \E k \in 1..Len(indices) :
            indices[k] >= 0 /\ indices[k] < patternLength /\ indices[k] = i - 1]

\* optimizedData.tempo || defaultBeat.tempo
TempoOrDefault(data) ==
    IF "tempo" \in DOMAIN data /\ data.tempo # 0 THEN data.tempo ELSE TEMPO_DEFAULT

\* DrumMachine.expandBeatData: every voice of the default beat, each with the
\* default beat's length; the result has no patternLength property.
expandBeatData(optimizedData) ==
    IF IsNull(optimizedData) \/ "sequencer" \notin DOMAIN optimizedData
    THEN createDefaultBeat
    ELSE LET defaultBeat == createDefaultBeat
         IN [tempo |-> TempoOrDefault(optimizedData),
             sequencer |->
                 [v \in DOMAIN defaultBeat.sequencer |->
                     IF v \in DOMAIN optimizedData.sequencer
                     THEN ExpandPattern(optimizedData.sequencer[v],
                                        Len(defaultBeat.sequencer[v]))
                     ELSE defaultBeat.sequencer[v]]]

(***************************************************************************)
(* Share tokens and JSON texts.  btoa(JSON.stringify(x)) of plain data is  *)
(* a token that atob and JSON.parse turn back into x; any other text makes *)
(* atob or JSON.parse throw.                                               *)
(***************************************************************************)
NoToken == [kind |-> "absent"]
GarbageToken == [kind |-> "garbage"]
JsonToken(v) == [kind |-> "json", value |-> v]

\* DrumMachine.encodeBeatData
encodeBeatData(beatData) == JsonToken(beatData)

\* DrumMachine.decodeBeatData: the expanded beat, or the exception that atob
\* or JSON.parse threw.
decodeBeatData(encodedData) ==
    IF encodedData.kind = "json"
    THEN [ok |-> TRUE, value |-> expandBeatData(encodedData.value)]
    ELSE [ok |-> FALSE]

(***************************************************************************)
(* JavaScript arrays of steps: a read past the end gives undefined, which  *)
(* every reader coerces to false; a write past the end lengthens the       *)
(* array, and the holes it leaves read as false.                           *)
(***************************************************************************)
ArrayGet(arr, idx) == IF idx >= 0 /\ idx < Len(arr) THEN arr[idx + 1] ELSE FALSE

ArraySet(arr, idx, val) ==
    [i \in 1..(IF idx + 1 > Len(arr) THEN idx + 1 ELSE Len(arr)) |->
        IF i = idx + 1 THEN val ELSE IF i <= Len(arr) THEN arr[i] ELSE FALSE]

\* [...pattern, ...new Array(length - pattern.length).fill(false)] when the
\* new length is greater, pattern.slice(0, length) when it is smaller.
ResizePattern(pattern, length) ==
    IF Len(pattern) = length THEN pattern
    ELSE IF length > Len(pattern)
         THEN pattern \o AllFalse(length - Len(pattern))
         ELSE SubSeq(pattern, 1, length)

\* obj.prop = val on a record that may not have the property yet.
SetField(obj, prop, val) ==
    [f \in DOMAIN obj \cup {prop} |-> IF f = prop THEN val ELSE obj[f]]

(***************************************************************************)
(* SequencerManager.  The grid (a Map of Maps with the keys                *)
(* 0..patternLength-1) is a function from voices to step arrays;           *)
(* highlighted is the set of steps whose cells carry the playback          *)
(* highlight in the DOM; animationFrame is the id of the last requested    *)
(* frame, NoFrame for null.                                                *)
(***************************************************************************)
NoFrame == 0

\* SequencerManager.initializeGrid
initializeGrid(sm) ==
    [sm EXCEPT !.grid = [v \in DrumTypeSet |-> AllFalse(sm.patternLength)]]

\* new SequencerManager(container, options) followed by createGrid()
NewSequencerManager ==
    initializeGrid([patternLength |-> DEFAULT_LENGTH,
                    grid |-> <<>>,
                    isPlaying |-> FALSE,
                    currentStep |-> 0,
                    animationFrame |-> NoFrame,
                    highlighted |-> {}])

\* SequencerManager.validateStep
validateStep(sm, drumType, stepIndex) ==
    /\ stepIndex >= 0
    /\ stepIndex < sm.patternLength
    /\ drumType \in DrumTypeSet

\* A toggleStep that flips every step of the voice.
toggleStepRow(sm, drumType, stepIndex) ==
    IF ~validateStep(sm, drumType, stepIndex)
    THEN sm
    ELSE [sm EXCEPT !.grid[drumType] = [i \in DOMAIN @ |-> ~@[i]]]

\* SequencerManager.toggleStep
toggleStep(sm, drumType, stepIndex) ==
    IF ~validateStep(sm, drumType, stepIndex)
    THEN sm
    ELSE [sm EXCEPT !.grid[drumType][stepIndex + 1] = ~@]

\* SequencerManager.toggleStep, the value it returns: the cell's new state,
\* false when the arguments are not valid.
toggleStepResult(sm, drumType, stepIndex) ==
    IF ~validateStep(sm, drumType, stepIndex)
    THEN FALSE
    ELSE ~sm.grid[drumType][stepIndex + 1]

\* SequencerManager.setStepState
setStepState(sm, drumType, stepIndex, state) ==
    IF ~validateStep(sm, drumType, stepIndex)
    THEN sm
    ELSE [sm EXCEPT !.grid[drumType][stepIndex + 1] = state]

\* SequencerManager.validatePatternLength
validatePatternLength(length) ==
    /\ length >= MIN_LENGTH
    /\ length <= MAX_LENGTH
    /\ length \in AllowedLengths

\* SequencerManager.updateGridSize: a new, empty grid of the new length and a
\* new DOM grid (which carries no highlight).  The cursor is left as it is.
updateGridSize(sm, newLength) ==
    IF ~validatePatternLength(newLength)
    THEN sm
    ELSE [initializeGrid([sm EXCEPT !.patternLength = newLength])
             EXCEPT !.highlighted = {}]

\* A setSequencerData that moves the cursor on by one step as well.
setSequencerDataAdvancing(sm, data) ==
    [sm EXCEPT !.grid =
        [v \in DrumTypeSet |->
            [i \in 1..sm.patternLength |->
                IF v \in DOMAIN data THEN ArrayGet(data[v], i - 1) ELSE FALSE]],
               !.currentStep = (@ + 1) % sm.patternLength]

\* SequencerManager.setSequencerData
setSequencerData(sm, data) ==
    [sm EXCEPT !.grid =
        [v \in DrumTypeSet |->
            [i \in 1..sm.patternLength |->
                IF v \in DOMAIN data THEN ArrayGet(data[v], i - 1) ELSE FALSE]]]

\* SequencerManager.clearStepHighlighting
clearStepHighlighting(sm) == [sm EXCEPT !.highlighted = {}]

\* SequencerManager.highlightCurrentStep: the cells of the step, if the DOM
\* grid has them.
highlightCurrentStep(sm, stepIndex) ==
    [sm EXCEPT !.highlighted =
        IF stepIndex < sm.patternLength THEN {stepIndex} ELSE {}]

\* requestAnimationFrame: an id no pending callback has.
FreshFrame(queue) ==
    CHOOSE id \in 1..(Cardinality(queue) + 1) :
        /\ \A cb \in queue : cb.id # id
        /\ \A other \in 1..(id - 1) : \E cb \in queue : cb.id = other

\* An animate whose step duration is that of the default tempo, whatever
\* tempo startPlayback is given.
AnimateCallbackDefaultTempo(id, beat) == [id |-> id, bpm |-> TEMPO_DEFAULT]

\* The callback a startPlayback(bpm) requests: animate, closed over the step
\* duration 60 / bpm / 4.  A beat without a tempo gives the duration NaN.
AnimateCallback(id, beat) ==
    IF "tempo" \in DOMAIN beat
    THEN [id |-> id, bpm |-> beat.tempo]
    ELSE [id |-> id]

\* const stepDuration = 60 / bpm / 4, in seconds, as the fraction
\* <<numerator, denominator>>.
stepDuration(bpm) == <<60, bpm * 4>>

\* Two fractions of positive denominators are the same number.
SameFraction(a, b) == a[1] * b[2] = b[1] * a[2]

\* elapsed >= stepDuration can hold: the duration is a number and finite.
CanElapse(cb) == "bpm" \in DOMAIN cb /\ cb.bpm # 0

\* A startPlayback that does not look at isPlaying.
startPlaybackAgain(sm, id) ==
    [sm EXCEPT !.isPlaying = TRUE, !.currentStep = 0, !.animationFrame = id]

\* SequencerManager.startPlayback, the object's part
startPlayback(sm, id) ==
    IF sm.isPlaying
    THEN sm
    ELSE [sm EXCEPT !.isPlaying = TRUE, !.currentStep = 0, !.animationFrame = id]

\* SequencerManager.startPlayback, the frame it requests
startPlaybackFrames(sm, queue, beat) ==
    IF sm.isPlaying
    THEN queue
    ELSE queue \cup {AnimateCallback(FreshFrame(queue), beat)}

\* SequencerManager.stopPlayback, the object's part
stopPlayback(sm) ==
    clearStepHighlighting(
        [sm EXCEPT !.isPlaying = FALSE, !.currentStep = 0, !.animationFrame = NoFrame])

\* A stopPlayback that leaves the requested frame with the browser.
stopPlaybackFramesKept(sm, queue) == queue

\* SequencerManager.stopPlayback, cancelAnimationFrame(this.animationFrame)
stopPlaybackFrames(sm, queue) ==
    IF sm.animationFrame # NoFrame
    THEN {cb \in queue : cb.id # sm.animationFrame}
    ELSE queue

\* A step of animate that highlights and leaves the cursor where it is.
animateStepStuck(sm) == highlightCurrentStep(sm, sm.currentStep)

\* The step of animate, taken when elapsed >= stepDuration: highlight the
\* cursor's step and advance the cursor.
animateStep(sm) ==
    [highlightCurrentStep(sm, sm.currentStep)
        EXCEPT !.currentStep = (sm.currentStep + 1) % sm.patternLength]

\* The voices for which a step of animate calls the audio engine: animate
\* highlights and advances, and calls nothing else.
animateTriggers(sm) == {}

(***************************************************************************)
(* DrumMachine.                                                            *)
(***************************************************************************)
\* DrumMachine.updateSequencerDisplay
updateSequencerDisplay(sm, beat) ==
    IF ~IsNull(sm) /\ ~IsNull(beat) /\ "sequencer" \in DOMAIN beat
    THEN setSequencerData(sm, beat.sequencer)
    ELSE sm

HasSequencer(beat) == ~IsNull(beat) /\ "sequencer" \in DOMAIN beat

\* DrumMachine.handleStepToggle, the beat's part
handleStepToggleBeat(beat, drumType, stepIndex) ==
    IF ~HasSequencer(beat)
    THEN beat
    ELSE [beat EXCEPT !.sequencer[drumType] =
             ArraySet(@, stepIndex, ~ArrayGet(@, stepIndex))]

\* DrumMachine.handleStepToggle, the sequencer's part
handleStepToggleGrid(sm, beat, drumType, stepIndex) ==
    IF ~HasSequencer(beat)
    THEN sm
    ELSE setStepState(sm, drumType, stepIndex,
                      ~ArrayGet(beat.sequencer[drumType], stepIndex))

\* DrumMachine.handleTempoChange
handleTempoChange(beat, tempo) ==
    IF IsNull(beat) THEN beat ELSE SetField(beat, "tempo", tempo)

\* DrumMachine.handlePatternLengthChange, the beat's part: every voice is
\* resized; the beat's patternLength property is not written.
handlePatternLengthChangeBeat(beat, length) ==
    IF ~HasSequencer(beat)
    THEN beat
    ELSE [beat EXCEPT !.sequencer =
             [v \in DOMAIN beat.sequencer |-> ResizePattern(beat.sequencer[v], length)]]

\* DrumMachine.handlePatternLengthChange, the sequencer's part
handlePatternLengthChangeGrid(sm, beat, length) ==
    IF ~HasSequencer(beat)
    THEN sm
    ELSE updateSequencerDisplay(updateGridSize(sm, length),
                                handlePatternLengthChangeBeat(beat, length))

\* DrumMachine.clearBeat, the beat it installs
clearBeat == createDefaultBeat

\* DrumMachine.loadBeatFromURL: the beat, the sequencer and the status it
\* leaves.
loadBeatFromURL(beat, sm, token) ==
    LET decoded == decodeBeatData(token)
    IN IF decoded.ok
       THEN [beat |-> decoded.value,
             sm |-> updateSequencerDisplay(sm, decoded.value),
             status |-> "Beat loaded from shared link",
             ok |-> TRUE]
       ELSE [beat |-> beat, sm |-> sm, status |-> "Invalid beat data in URL",
             ok |-> FALSE]

(***************************************************************************)
(* BeatStorage.  A beat name is a string, modelled as the sequence of its  *)
(* characters.  The text under the storage key is absent, unparseable, or  *)
(* the JSON text of a value; JSON.parse(JSON.stringify(x)) is x for the    *)
(* plain data the store holds.  this.beats is a sequence of entries        *)
(* {name, data, timestamp, lastUsed}.                                      *)
(***************************************************************************)
NAME_MAX_LENGTH == 50

NoText == [kind |-> "absent"]
GarbageText == [kind |-> "garbage"]
\* JSON.stringify of an array of entries
ArrayText(items) == [kind |-> "json", array |-> TRUE, items |-> items]
\* JSON.stringify of a value that is not an array
ObjectText == [kind |-> "json", array |-> FALSE]

\* String.prototype.trim
trim(name) ==
    LET inked == {i \in 1..Len(name) : name[i] # " "}
    IN IF inked = {}
       THEN <<>>
       ELSE SubSeq(name,
                   CHOOSE i \in inked : \A j \in inked : i <= j,
                   CHOOSE i \in inked : \A j \in inked : i >= j)

\* BeatStorage.validateBeatName
validateBeatName(name) ==
    IF name = <<>>
    THEN [valid |-> FALSE, message |-> "Beat name cannot be empty"]
    ELSE IF Len(trim(name)) = 0
    THEN [valid |-> FALSE, message |-> "Beat name cannot be empty"]
    ELSE IF Len(trim(name)) > NAME_MAX_LENGTH
    THEN [valid |-> FALSE, message |-> "Beat name too long (max 50 characters)"]
    ELSE [valid |-> TRUE, message |-> ""]

\* BeatStorage.validateBeatData
validateBeatData(data) ==
    IF IsNull(data)
    THEN [valid |-> FALSE, message |-> "Invalid beat data structure"]
    ELSE IF \/ "tempo" \notin DOMAIN data
            \/ data.tempo < TEMPO_MIN
            \/ data.tempo > TEMPO_MAX
    THEN [valid |-> FALSE, message |-> "Tempo must be between 60 and 200"]
    ELSE IF \/ "patternLength" \notin DOMAIN data
            \/ data.patternLength \notin AllowedLengths
    THEN [valid |-> FALSE, message |-> "Pattern length must be one of: 4, 8, 16, 32"]
    ELSE IF "sequencer" \notin DOMAIN data
    THEN [valid |-> FALSE, message |-> "Sequencer data is required"]
    ELSE [valid |-> TRUE, message |-> ""]

\* BeatStorage.isValidBeatStructure
isValidBeatStructure(beat) ==
    /\ ~IsNull(beat)
    /\ "name" \in DOMAIN beat /\ beat.name # <<>>
    /\ "data" \in DOMAIN beat /\ ~IsNull(beat.data)
    /\ "timestamp" \in DOMAIN beat
    /\ "lastUsed" \in DOMAIN beat
    /\ validateBeatData(beat.data).valid

\* this.beats.findIndex((b) => b.name === name), as a position; 0 for -1
findIndex(beats, name) ==
    IF \E i \in 1..Len(beats) : beats[i].name = name
    THEN CHOOSE i \in 1..Len(beats) :
             /\ beats[i].name = name
             /\ \A j \in 1..(i - 1) : beats[j].name # name
    ELSE 0

\* BeatStorage.getBeatByName
getBeatByName(beats, name) ==
    IF findIndex(beats, name) = 0 THEN Null ELSE beats[findIndex(beats, name)]

\* A getLastUsedBeat that keeps the later of two entries of the same
\* lastUsed.
getLastUsedBeatLater(beats) ==
    IF Len(beats) = 0
    THEN Null
    ELSE beats[CHOOSE i \in 1..Len(beats) :
                   /\ \A j \in 1..Len(beats) : beats[j].lastUsed <= beats[i].lastUsed
                   /\ \A j \in (i + 1)..Len(beats) : beats[j].lastUsed < beats[i].lastUsed]

\* this.beats.reduce((latest, current) =>
\*     current.lastUsed > latest.lastUsed ? current : latest)
\* from the i-th entry on, with the entry kept so far.
RECURSIVE reduceLatest(_, _, _)
reduceLatest(beats, latest, i) ==
    IF i > Len(beats)
    THEN latest
    ELSE reduceLatest(beats,
                      IF beats[i].lastUsed > latest.lastUsed THEN beats[i] ELSE latest,
                      i + 1)

\* BeatStorage.getLastUsedBeat
getLastUsedBeat(beats) ==
    IF Len(beats) = 0
    THEN Null
    ELSE reduceLatest(beats, beats[1], 2)

\* BeatStorage.persistBeats: the text it writes
persistBeats(beats) == ArrayText(beats)

\* A saveBeat that does not look for an entry of the same name before it
\* writes.
saveBeatUnchecked(beats, text, name, data, overwrite, time) ==
    LET beat == [name |-> trim(name), data |-> data,
                 timestamp |-> time, lastUsed |-> time]
        updated == IF findIndex(beats, name) # 0
                   THEN [beats EXCEPT ![findIndex(beats, name)] = beat]
                   ELSE Append(beats, beat)
    IN IF ~validateBeatName(name).valid
       THEN [beats |-> beats, text |-> text,
             result |-> [success |-> FALSE, message |-> validateBeatName(name).message]]
       ELSE IF ~validateBeatData(data).valid
       THEN [beats |-> beats, text |-> text,
             result |-> [success |-> FALSE, message |-> validateBeatData(data).message]]
       ELSE [beats |-> updated, text |-> persistBeats(updated),
             result |-> [success |-> TRUE, message |-> "Beat saved successfully",
                         beat |-> beat]]

\* BeatStorage.saveBeat: this.beats and the stored text it leaves, and the
\* result it returns.  The entry's data is a shallow copy of the data given.
saveBeat(beats, text, name, data, overwrite, time) ==
    LET existingBeat == getBeatByName(beats, name)
        beat == [name |-> trim(name), data |-> data,
                 timestamp |-> time, lastUsed |-> time]
        updated == IF ~IsNull(existingBeat)
                   THEN [beats EXCEPT ![findIndex(beats, name)] = beat]
                   ELSE Append(beats, beat)
    IN IF ~validateBeatName(name).valid
       THEN [beats |-> beats, text |-> text,
             result |-> [success |-> FALSE, message |-> validateBeatName(name).message]]
       ELSE IF ~validateBeatData(data).valid
       THEN [beats |-> beats, text |-> text,
             result |-> [success |-> FALSE, message |-> validateBeatData(data).message]]
       ELSE IF ~IsNull(existingBeat) /\ ~overwrite
       THEN [beats |-> beats, text |-> text,
             result |-> [success |-> FALSE, message |-> "Beat name already exists",
                         conflict |-> TRUE, existingBeat |-> existingBeat]]
       ELSE [beats |-> updated, text |-> persistBeats(updated),
             result |-> [success |-> TRUE, message |-> "Beat saved successfully",
                         beat |-> beat]]

\* A loadBeat that sets lastUsed and does not store the collection.
loadBeatUnsaved(beats, text, name, time) ==
    IF findIndex(beats, name) = 0
    THEN [beats |-> beats, text |-> text, result |-> Null]
    ELSE LET touched == [beats EXCEPT ![findIndex(beats, name)].lastUsed = time]
         IN [beats |-> touched, text |-> text,
             result |-> touched[findIndex(beats, name)]]

\* BeatStorage.loadBeat
loadBeat(beats, text, name, time) ==
    IF findIndex(beats, name) = 0
    THEN [beats |-> beats, text |-> text, result |-> Null]
    ELSE LET touched == [beats EXCEPT ![findIndex(beats, name)].lastUsed = time]
         IN [beats |-> touched, text |-> persistBeats(touched),
             result |-> touched[findIndex(beats, name)]]

\* BeatStorage.clearAllBeats
clearAllBeats(beats, text) ==
    [beats |-> <<>>, text |-> persistBeats(<<>>),
     result |-> [success |-> TRUE, message |-> "All beats cleared successfully"]]

\* A loadAllBeats that drops the entries that fail validation from what it
\* returns and leaves the stored text as it found it.
loadAllBeatsUnpurged(beats, text) ==
    IF text.kind = "absent"
    THEN [beats |-> beats, text |-> text, result |-> [items |-> <<>>]]
    ELSE IF text.kind = "garbage" \/ ~text.array
    THEN [beats |-> <<>>, text |-> text, result |-> [items |-> <<>>]]
    ELSE [beats |-> beats, text |-> text,
          result |-> [items |-> SelectSeq(text.items, isValidBeatStructure)]]

\* BeatStorage.loadAllBeats: the array it returns (result.items), and
\* this.beats and the stored text as the call leaves them.
loadAllBeats(beats, text) ==
    IF text.kind = "absent"
    THEN [beats |-> beats, text |-> text, result |-> [items |-> <<>>]]
    ELSE IF text.kind = "garbage" \/ ~text.array
    THEN [beats |-> clearAllBeats(beats, text).beats,
          text |-> clearAllBeats(beats, text).text,
          result |-> [items |-> <<>>]]
    ELSE LET validBeats == SelectSeq(text.items, isValidBeatStructure)
         IN IF Len(validBeats) # Len(text.items)
            THEN [beats |-> validBeats, text |-> persistBeats(validBeats),
                  result |-> [items |-> validBeats]]
            ELSE [beats |-> beats, text |-> text, result |-> [items |-> validBeats]]

\* BeatStorage.deleteBeat
deleteBeat(beats, text, name) ==
    LET kept == SelectSeq(beats, LAMBDA b : b.name # name)
    IN IF Len(kept) = Len(beats)
       THEN [beats |-> kept, text |-> text,
             result |-> [success |-> FALSE, message |-> <<"Beat not found", name>>]]
       ELSE [beats |-> kept, text |-> persistBeats(kept),
             result |-> [success |-> TRUE, message |-> "Beat deleted successfully"]]

\* BeatStorage.saveBeat while localStorage.setItem throws, as it does when
\* the quota is exceeded: persistBeats throws after this.beats has been
\* written, and the catch returns the failure.
saveBeatStorageFull(beats, text, name, data, overwrite, time) ==
    LET r == saveBeat(beats, text, name, data, overwrite, time)
    IN IF ~r.result.success
       THEN r
       ELSE [beats |-> r.beats, text |-> text,
             result |-> [success |-> FALSE,
                         message |-> "Failed to save to local storage"]]

\* BeatStorage.deleteBeat while localStorage.setItem throws: this.beats has
\* been filtered before persistBeats throws.
deleteBeatStorageFull(beats, text, name) ==
    LET r == deleteBeat(beats, text, name)
    IN IF ~r.result.success
       THEN r
       ELSE [beats |-> r.beats, text |-> text,
             result |-> [success |-> FALSE,
                         message |-> "Failed to save to local storage"]]

\* BeatStorage.beatNameExists
beatNameExists(beats, name) == \E i \in 1..Len(beats) : beats[i].name = name

\* `${originalName}_${Date.now()}`
SuffixedName(originalName, time) == originalName \o <<"_", ToString(time)>>

\* The while loop of importBeats: the time at which it ends.  It ends at once
\* when the name is free; otherwise it renames the beat with the clock's
\* reading until the name it made is free, which takes a later reading of
\* the clock when the name made from this one is taken too.
RECURSIVE RenameTime(_, _, _)
RenameTime(beats, originalName, time) ==
    IF ~beatNameExists(beats, SuffixedName(originalName, time))
    THEN time
    ELSE RenameTime(beats, originalName, time + 1)

\* The forEach of importBeats from the i-th valid beat on: this.beats and
\* the clock once the rest are pushed.
RECURSIVE ImportEach(_, _, _, _)
ImportEach(beats, validBeats, i, time) ==
    IF i > Len(validBeats)
    THEN [beats |-> beats, time |-> time]
    ELSE LET originalName == validBeats[i].name
             taken == beatNameExists(beats, originalName)
             after == IF taken THEN RenameTime(beats, originalName, time) ELSE time
             beat == [validBeats[i] EXCEPT
                          !.name = IF taken
                                   THEN SuffixedName(originalName, after)
                                   ELSE originalName,
                          !.timestamp = after,
                          !.lastUsed = after]
         IN ImportEach(Append(beats, beat), validBeats, i + 1, after)

\* BeatStorage.importBeats: this.beats, the stored text and the clock as the
\* call leaves them, and the result it returns.
importBeats(beats, text, jsonString, time) ==
    IF jsonString.kind # "json"
    THEN [beats |-> beats, text |-> text, time |-> time,
          result |-> [success |-> FALSE, message |-> "Invalid JSON format"]]
    ELSE IF ~jsonString.array
    THEN [beats |-> beats, text |-> text, time |-> time,
          result |-> [success |-> FALSE,
                      message |-> "Invalid import format - expected array of beats"]]
    ELSE LET validBeats == SelectSeq(jsonString.items, isValidBeatStructure)
             invalidCount == Len(jsonString.items) - Len(validBeats)
             added == ImportEach(beats, validBeats, 1, time)
         IN IF Len(validBeats) = 0
            THEN [beats |-> beats, text |-> text, time |-> time,
                  result |-> [success |-> FALSE,
                              message |-> "No valid beats found in import data"]]
            ELSE [beats |-> added.beats, text |-> persistBeats(added.beats),
                  time |-> added.time,
                  result |-> [success |-> TRUE, importedCount |-> Len(validBeats),
                              invalidCount |-> invalidCount]]

\* DrumMachine.loadLastUsedBeat: the store's entry itself becomes the
\* current beat.  The status text carries the entry's name, left out here.
loadLastUsedBeat(beat, sm, text, beats) ==
    LET lastUsedBeat == getLastUsedBeat(beats)
    IN IF IsNull(lastUsedBeat)
       THEN [beat |-> beat, sm |-> sm, status |-> text, ok |-> FALSE]
       ELSE [beat |-> lastUsedBeat,
             sm |-> updateSequencerDisplay(sm, lastUsedBeat),
             status |-> "Loaded: ",
             ok |-> TRUE]

(***************************************************************************)
(* The sample files: the sound collections, the selection of each voice    *)
(* and loadSample.                                                         *)
(***************************************************************************)
\* SOUND_COLLECTIONS: the default file of a voice and its options; the
\* first option of every voice is its default file.
SOUND_COLLECTIONS ==
    "kick" :> [default |-> "sounds/Kicks/Simple Kick.wav",
               options |-> {"sounds/Kicks/Simple Kick.wav",
                            "sounds/Kicks/short_kick.wav",
                            "sounds/Kicks/Stack_kick.wav"}] @@
    "snare" :> [default |-> "sounds/Snares/STACKERY_1.wav",
                options |-> {"sounds/Snares/STACKERY_1.wav"}] @@
    "hihat" :> [default |-> "sounds/Percs/T_HAT.wav",
                options |-> {"sounds/Percs/T_HAT.wav",
                             "sounds/Percs/T_CHH.wav"}]

\* initializeSoundSelections: the saved selections when they parse, else
\* none, and the default file for every voice left without one.
initializeSoundSelections(saved) ==
    [drumType \in DOMAIN SOUND_COLLECTIONS |->
        IF ~IsNull(saved) /\ "selections" \in DOMAIN saved
           /\ drumType \in DOMAIN saved.selections
        THEN saved.selections[drumType]
        ELSE SOUND_COLLECTIONS[drumType].default]

getCurrentSoundFile(selections, drumType) == selections[drumType]

\* changeSound, which also saves the selections.
changeSound(selections, drumType, soundFile) ==
    [selections EXCEPT ![drumType] = soundFile]

\* loadSample(audioContext, drumType), where the first and the second
\* request of fetch resolve with an OK response ("ok"), resolve with
\* another status ("status") or reject ("reject"), and decodeAudioData
\* resolves or rejects.  It returns the decoded buffer or null; the
\* selections after it and the requests it made are returned along, each
\* with what came of the file ("undecodable" for a fetched file that
\* decodeAudioData rejected).
loadSample(selections, drumType, first, second, decoded) ==
    IF drumType \notin DOMAIN SOUND_COLLECTIONS
    THEN [value |-> Null, selections |-> selections, requests |-> <<>>]
    ELSE LET soundFile == getCurrentSoundFile(selections, drumType)
             defaultSound == SOUND_COLLECTIONS[drumType].default
             asset(outcome) == IF outcome = "ok" /\ ~decoded
                               THEN "undecodable" ELSE outcome
             one == <<[file |-> soundFile, outcome |-> asset(first)]>>
             two == <<[file |-> soundFile, outcome |-> first],
                      [file |-> defaultSound, outcome |-> asset(second)]>>
         IN IF first = "reject"
            THEN [value |-> Null, selections |-> selections, requests |-> one]
            ELSE IF first = "ok"
            THEN [value |-> IF decoded THEN [buffer |-> soundFile] ELSE Null,
                  selections |-> selections, requests |-> one]
            ELSE IF soundFile = defaultSound
            THEN [value |-> Null, selections |-> selections, requests |-> one]
            ELSE IF second = "ok"
            THEN [value |-> IF decoded THEN [buffer |-> defaultSound] ELSE Null,
                  selections |-> changeSound(selections, drumType, defaultSound),
                  requests |-> two]
            ELSE [value |-> Null, selections |-> selections, requests |-> two]

(***************************************************************************)
(* ModalManager.                                                           *)
(***************************************************************************)
\* new ModalManager(): the modal elements made so far, by id, and the active
\* modal.  A modal element is known by its id; the styles of the elements
\* are left out.
NewModalManager == [modals |-> {}, activeModal |-> Null]

\* ModalManager.hideModal(modalId): the opacity goes to 0 at once, and a
\* timer is set that takes the modal off the page after the animation.
\* timers is the queue of those timers, in the order they will fire.
hideModal(mm, timers, modalId) ==
    IF modalId \notin mm.modals
    THEN [timers |-> timers, value |-> FALSE]
    ELSE [timers |-> Append(timers, [id |-> modalId]), value |-> TRUE]

\* The callback of hideModal's timer for a modal: it removes the modal from
\* its parent and, when it is the active modal, leaves no modal active.
hideModalTimeout(mm, body, modal) ==
    [mm |-> IF mm.activeModal = modal
            THEN [mm EXCEPT !.activeModal = Null]
            ELSE mm,
     body |-> body \ {modal}]

\* ModalManager.showModal(modal): it hides the active modal if there is
\* one, appends the modal to document.body and makes it the active modal.
showModal(mm, body, timers, modal) ==
    [mm |-> [mm EXCEPT !.activeModal = modal],
     body |-> body \cup {modal},
     timers |-> IF IsNull(mm.activeModal)
                THEN timers
                ELSE hideModal(mm, timers, mm.activeModal.id).timers]

\* The first lines of showBeatSelectionModal and showSaveBeatModal: the
\* modal of the id is made and kept on its first use.
createModal(mm, modalId) == [mm EXCEPT !.modals = @ \cup {modalId}]

(***************************************************************************)
(* AudioManager.  audioContext is null or the AudioContext the manager     *)
(* holds: its state, whether it has a resume function, and the options it  *)
(* was made with.                                                          *)
(***************************************************************************)
\* new AudioManager()
NewAudioManager == [audioContext |-> Null, isInitialized |-> FALSE]

\* new AudioContext(options) as initialize calls it: for a mobile user
\* agent the balanced latency and the lower sample rate.
NewAudioContext(state, hasResume, mobile) ==
    [state |-> state,
     resume |-> hasResume,
     latencyHint |-> IF mobile THEN "balanced" ELSE "interactive",
     sampleRate |-> IF mobile THEN 22050 ELSE 44100]

\* this.audioContext && this.isInitialized
ContextAvailable(am) == ~IsNull(am.audioContext) /\ am.isInitialized

\* AudioManager.initialize: the manager it leaves and the value it resolves
\* to.  made is what the AudioContext constructor did: it threw, or it gave
\* a context.
initialize(am, made) ==
    IF made.ok
    THEN [am |-> [audioContext |-> made.context, isInitialized |-> TRUE],
          value |-> TRUE]
    ELSE [am |-> [am EXCEPT !.isInitialized = FALSE], value |-> FALSE]

\* A resumeAudioContext that calls resume() whatever the state.
resumeAudioContextAlways(am, settled) ==
    IF ~ContextAvailable(am)
    THEN [am |-> am, value |-> FALSE]
    ELSE IF ~am.audioContext.resume
    THEN [am |-> am, value |-> FALSE]
    ELSE IF settled
    THEN [am |-> [am EXCEPT !.audioContext.state = "running"], value |-> TRUE]
    ELSE [am |-> am, value |-> FALSE]

\* AudioManager.resumeAudioContext: the manager it leaves and the value it
\* resolves to.  settled tells whether the promise of resume() is fulfilled,
\* which puts the context in the running state, or rejected.
resumeAudioContext(am, settled) ==
    IF ~ContextAvailable(am)
    THEN [am |-> am, value |-> FALSE]
    ELSE IF ~am.audioContext.resume
    THEN [am |-> am, value |-> FALSE]
    ELSE IF am.audioContext.state = "suspended"
    THEN IF settled
         THEN [am |-> [am EXCEPT !.audioContext.state = "running"], value |-> TRUE]
         ELSE [am |-> am, value |-> FALSE]
    ELSE IF am.audioContext.state = "running"
    THEN [am |-> am, value |-> TRUE]
    ELSE IF am.audioContext.state = "closed"
    THEN [am |-> am, value |-> FALSE]
    ELSE [am |-> am, value |-> TRUE]

\* AudioManager.checkAudioContextHealth
checkAudioContextHealth(am) ==
    IF ~ContextAvailable(am)
    THEN [healthy |-> FALSE, state |-> "not-initialized"]
    ELSE IF am.audioContext.state = "running"
    THEN [healthy |-> TRUE, state |-> "running"]
    ELSE IF am.audioContext.state = "suspended"
    THEN [healthy |-> FALSE, state |-> "suspended"]
    ELSE IF am.audioContext.state = "closed"
    THEN [healthy |-> FALSE, state |-> "closed"]
    ELSE [healthy |-> FALSE, state |-> "unknown"]

\* AudioManager.restoreAudioContext
restoreAudioContext(am, made, settled) ==
    IF ~ContextAvailable(am)
    THEN initialize(am, made)
    ELSE IF am.audioContext.state = "closed"
    THEN initialize(am, made)
    ELSE IF am.audioContext.state = "suspended"
    THEN resumeAudioContext(am, settled)
    ELSE [am |-> am, value |-> TRUE]

\* AudioManager.destroy
destroy(am) == [audioContext |-> Null, isInitialized |-> FALSE]

VARIABLES
    phase,          \* "constructed", then "ready" once initialize() has run
    currentBeat,    \* DrumMachine.currentBeat
    sequencerManager, \* DrumMachine.sequencerManager and its fields
    rafQueue,       \* the animation-frame callbacks the browser holds
    status,         \* the text of the status element
    triggers,       \* the voices the audio engine was asked to play by the last tick
    lastOp,         \* the handler that ran last
    cIn, cOpt, cOut, \* the codec's input, compact form and expansion
    storage,        \* the text under the beats key of localStorage
    beats,          \* BeatStorage.beats
    result,         \* what the last call of a BeatStorage method returned
    now,            \* Date.now()
    refs,           \* the references the store holds into the current beat
    audioManager,   \* DrumMachine.audioManager and its fields
    currentSoundSelections, \* the selected sample file of each voice
    requests,       \* the sample files fetch was asked for, in order
    modalManager,   \* ModalManager.modals and ModalManager.activeModal
    body,           \* the modals that are children of document.body
    timers          \* the hide timers the browser holds

vars == <<phase, currentBeat, sequencerManager, rafQueue, status, triggers, lastOp,
          cIn, cOpt, cOut, storage, beats, result, now, refs, audioManager,
          currentSoundSelections, requests, modalManager, body, timers>>
appVars == <<phase, currentBeat, sequencerManager, rafQueue, status, triggers>>
codecVars == <<cIn, cOpt, cOut>>
storeVars == <<storage, beats, result, now, refs>>
sampleVars == <<currentSoundSelections, requests>>
modalVars == <<modalManager, body, timers>>
pageVars == <<sampleVars, modalVars>>

(***************************************************************************)
(* Inputs.                                                                 *)
(***************************************************************************)
\* The patterns the codec is applied to: valid patterns whose active cells
\* lie among the input voices and the input steps.
PatternOf(cells, len) ==
    [v \in DrumTypeSet |-> [i \in 1..len |-> <<v, i - 1>> \in cells]]

ValidPatterns ==
    {[tempo |-> t, patternLength |-> n, sequencer |-> PatternOf(cells, n)] :
        t \in InputTempos, n \in AllowedLengths,
        cells \in SUBSET (InputVoices \X InputSteps)}

\* The tempo and length values the controls are moved to; the handlers take
\* whatever number parseInt read.
TempoInputs == {140, 250}
LengthInputs == {MIN_LENGTH, 8, 12, DEFAULT_LENGTH}
PlayLengths == {MIN_LENGTH, 8}

\* Share tokens: unreadable text, a JSON value without a sequencer, what
\* shareBeat makes of a pattern, and a token of another encoder that carries
\* the pattern length, a tempo out of range and a step index out of range.
SharedPattern ==
    [tempo |-> 140, patternLength |-> 8,
     sequencer |-> PatternOf({<<DRUM_TYPES[1], 0>>, <<DRUM_TYPES[1], 5>>}, 8)]

ForeignCompact ==
    [tempo |-> 250, patternLength |-> 8,
     sequencer |-> (DRUM_TYPES[2] :> <<3, 17>>)]

PlayTempos == {250}
PlayTokens == {encodeBeatData(optimizeBeatData(SharedPattern))}

TokenInputs ==
    {GarbageToken,
     JsonToken([tempo |-> 140]),
     encodeBeatData(optimizeBeatData(SharedPattern)),
     JsonToken(ForeignCompact)}

(***************************************************************************)
(* The application: initialize() and the handlers of the controls.         *)
(***************************************************************************)
AppInit ==
    /\ phase = "constructed"
    /\ currentBeat = Null
    /\ sequencerManager = Null
    /\ rafQueue = {}
    /\ status = ""
    /\ triggers = {}
    /\ lastOp = "new"

CodecIdle ==
    /\ cIn = Null
    /\ cOpt = Null
    /\ cOut = Null

\* No entry of the store is the current beat or holds its sequencer.
NoRefs == [entry |-> 0, sequencer |-> {}]

StoreIdle ==
    /\ storage = NoText
    /\ beats = <<>>
    /\ result = Null
    /\ now = 0
    /\ refs = NoRefs

AudioIdle == audioManager = NewAudioManager

\* The sample files of the page's module: initializeSoundSelections has
\* run over a storage without saved selections.
SampleIdle ==
    /\ currentSoundSelections = initializeSoundSelections(Null)
    /\ requests = <<>>

\* new ModalManager(), and a page without modals.
ModalIdle ==
    /\ modalManager = NewModalManager
    /\ body = {}
    /\ timers = <<>>

PageIdle == SampleIdle /\ ModalIdle

Init == AppInit /\ CodecIdle /\ StoreIdle /\ AudioIdle /\ PageIdle

\* The store once a handler has written to the current beat object, which
\* is now beat: the entry that is that very object (loadBeat and
\* loadLastUsedBeat make an entry the current beat) is beat, and an entry
\* whose data holds that object's sequencer (saveBeat copies the current
\* beat one level deep) has the voices of beat.
WriteThrough(entries, held, beat) ==
    [i \in 1..Len(entries) |->
        IF i = held.entry
        THEN beat
        ELSE IF i \in held.sequencer /\ HasSequencer(beat)
        THEN [entries[i] EXCEPT !.data.sequencer = beat.sequencer]
        ELSE entries[i]]

\* The position of the entry getLastUsedBeat returns, 0 for null.
LastUsedIndex(entries) ==
    IF Len(entries) = 0
    THEN 0
    ELSE CHOOSE i \in 1..Len(entries) :
             /\ entries[i] = getLastUsedBeat(entries)
             /\ \A j \in 1..(i - 1) : entries[j] # getLastUsedBeat(entries)

\* DrumMachine.initialize with the share token of the page's URL and
\* what the AudioContext constructor does: audioManager.initialize, whose
\* answer is not looked at, initializeUIManagers, setupEventHandlers, then
\* initializeApplicationState.
InitializeApp(token, made) ==
    /\ phase = "constructed"
    /\ phase' = "ready"
    /\ audioManager' = initialize(audioManager, made).am
    /\ IF token.kind # "absent"
       THEN LET r == loadBeatFromURL(currentBeat, NewSequencerManager, token)
            IN /\ currentBeat' = r.beat
               /\ sequencerManager' = r.sm
               /\ status' = "Beat loaded from shared link"
               /\ refs' = IF decodeBeatData(token).ok THEN NoRefs ELSE refs
       ELSE LET r == loadLastUsedBeat(currentBeat, NewSequencerManager, status, beats)
            IN /\ currentBeat' = r.beat
               /\ sequencerManager' = r.sm
               /\ status' = r.status
               /\ refs' = IF r.ok
                          THEN [entry |-> LastUsedIndex(beats), sequencer |-> {}]
                          ELSE refs
    /\ lastOp' = "initialize"
    /\ UNCHANGED <<rafQueue, triggers, codecVars, storage, beats, result, now, pageVars>>

\* The page's audio where the audio is not looked at: a desktop browser
\* whose context starts suspended.
PageAudio == {[ok |-> TRUE, context |-> NewAudioContext("suspended", TRUE, FALSE)]}

\* DrumMachine.initialize on such a page.
Initialize(token) == \E made \in PageAudio : InitializeApp(token, made)

\* A click on the grid cell of a voice and a step:
\* SequencerManager.handleCellClick, which calls DrumMachine.handleStepToggle.
CellClick(drumType, stepIndex) ==
    /\ phase = "ready"
    /\ stepIndex < sequencerManager.patternLength
    /\ LET toggled == toggleStep(sequencerManager, drumType, stepIndex)
       IN /\ currentBeat' = handleStepToggleBeat(currentBeat, drumType, stepIndex)
          /\ sequencerManager' =
                 handleStepToggleGrid(toggled, currentBeat, drumType, stepIndex)
    /\ beats' = WriteThrough(beats, refs, currentBeat')
    /\ lastOp' = "click"
    /\ UNCHANGED <<phase, rafQueue, status, triggers, codecVars, audioManager, pageVars,
                   storage, result, now, refs>>

\* The tempo control's input event.
TempoChange(tempo) ==
    /\ phase = "ready"
    /\ currentBeat' = handleTempoChange(currentBeat, tempo)
    /\ beats' = WriteThrough(beats, refs, currentBeat')
    /\ lastOp' = "tempo"
    /\ UNCHANGED <<phase, sequencerManager, rafQueue, status, triggers, codecVars,
                   audioManager, pageVars, storage, result, now, refs>>

\* The pattern-length control's change event.
PatternLengthChange(length) ==
    /\ phase = "ready"
    /\ currentBeat' = handlePatternLengthChangeBeat(currentBeat, length)
    /\ sequencerManager' =
           handlePatternLengthChangeGrid(sequencerManager, currentBeat, length)
    /\ beats' = WriteThrough(beats, refs, currentBeat')
    /\ lastOp' = "length"
    /\ UNCHANGED <<phase, rafQueue, status, triggers, codecVars, audioManager, pageVars,
                   storage, result, now, refs>>

\* The play button: DrumMachine.startPlayback.
Play ==
    /\ phase = "ready"
    /\ IF IsNull(currentBeat)
       THEN UNCHANGED <<sequencerManager, rafQueue, status>>
       ELSE /\ sequencerManager' =
                   startPlayback(sequencerManager, FreshFrame(rafQueue))
            /\ rafQueue' = startPlaybackFrames(sequencerManager, rafQueue, currentBeat)
            /\ status' = "Playing..."
    /\ lastOp' = "play"
    /\ UNCHANGED <<phase, currentBeat, triggers, codecVars, audioManager, pageVars, storeVars>>

\* The stop button: DrumMachine.stopPlayback.
Stop ==
    /\ phase = "ready"
    /\ sequencerManager' = stopPlayback(sequencerManager)
    /\ rafQueue' = stopPlaybackFrames(sequencerManager, rafQueue)
    /\ status' = "Stopped"
    /\ lastOp' = IF rafQueue # {} THEN "stop" ELSE "stopIdle"
    /\ UNCHANGED <<phase, currentBeat, triggers, codecVars, audioManager, pageVars, storeVars>>

\* The clear button: DrumMachine.handleClear, which is clearBeat.
Clear ==
    /\ phase = "ready"
    /\ currentBeat' = clearBeat
    /\ sequencerManager' = updateSequencerDisplay(sequencerManager, clearBeat)
    /\ status' = "Beat cleared"
    /\ refs' = NoRefs
    /\ lastOp' = "clear"
    /\ UNCHANGED <<phase, rafQueue, triggers, codecVars, audioManager, pageVars,
                   storage, beats, result, now>>

\* The load-from-URL button: promptForURL with a URL that carries a token.
PromptForURL(token) ==
    /\ phase = "ready"
    /\ LET r == loadBeatFromURL(currentBeat, sequencerManager, token)
       IN /\ currentBeat' = r.beat
          /\ sequencerManager' = r.sm
          /\ status' = r.status
    /\ refs' = IF decodeBeatData(token).ok THEN NoRefs ELSE refs
    /\ lastOp' = "url"
    /\ UNCHANGED <<phase, rafQueue, triggers, codecVars, audioManager, pageVars,
                   storage, beats, result, now>>

\* A mute button: DrumMachine.toggleMute, which only reports.
ToggleMute(drumType) ==
    /\ phase = "ready"
    /\ status' = "Toggled mute"
    /\ lastOp' = "mute"
    /\ UNCHANGED <<phase, currentBeat, sequencerManager, rafQueue, triggers, codecVars, audioManager, pageVars, storeVars>>

\* The browser runs a pending animation-frame callback: animate.  Whether
\* the step duration has elapsed is the browser's clock's to say.
Frame(cb, elapsed) ==
    /\ cb \in rafQueue
    /\ elapsed => CanElapse(cb)
    /\ IF ~sequencerManager.isPlaying
       THEN /\ rafQueue' = rafQueue \ {cb}
            /\ sequencerManager' = sequencerManager
            /\ triggers' = triggers
            /\ lastOp' = "frame"
       ELSE LET stepped == IF elapsed THEN animateStep(sequencerManager)
                           ELSE sequencerManager
                rest == rafQueue \ {cb}
                id == FreshFrame(rest)
            IN /\ sequencerManager' = [stepped EXCEPT !.animationFrame = id]
               /\ rafQueue' = rest \cup {[cb EXCEPT !.id = id]}
               /\ triggers' = IF elapsed THEN animateTriggers(sequencerManager)
                              ELSE triggers
               /\ lastOp' = IF elapsed THEN "tick" ELSE "frame"
    /\ UNCHANGED <<phase, currentBeat, status, codecVars, audioManager, pageVars, storeVars>>

\* The whole application, playback included, with the cell clicks on the
\* playback inputs.
Next ==
    \/ \E token \in PlayTokens \cup {NoToken} : Initialize(token)
    \/ \E v \in PlayVoices, s \in PlaySteps : CellClick(v, s)
    \/ \E t \in PlayTempos : TempoChange(t)
    \/ \E n \in PlayLengths : PatternLengthChange(n)
    \/ Play
    \/ Stop
    \/ Clear
    \/ \E token \in PlayTokens : PromptForURL(token)
    \/ \E v \in PlayVoices : ToggleMute(v)
    \/ \E cb \in rafQueue, elapsed \in BOOLEAN : Frame(cb, elapsed)

Spec == Init /\ [][Next]_vars

\* The application while it is not playing: every handler but the play
\* button, on the wider inputs.  No handler of this specification reads a
\* field that only playback writes.
NextEdit ==
    \/ \E token \in TokenInputs \cup {NoToken} : Initialize(token)
    \/ \E v \in InputVoices, s \in InputSteps : CellClick(v, s)
    \/ \E t \in TempoInputs : TempoChange(t)
    \/ \E n \in LengthInputs : PatternLengthChange(n)
    \/ Stop
    \/ Clear
    \/ \E token \in TokenInputs : PromptForURL(token)
    \/ \E v \in InputVoices : ToggleMute(v)

SpecEdit == Init /\ [][NextEdit]_vars

(***************************************************************************)
(* The codec applied to every valid input pattern.                         *)
(***************************************************************************)
AppIdle(p) ==
    /\ phase = p
    /\ currentBeat = Null
    /\ sequencerManager = Null
    /\ rafQueue = {}
    /\ status = ""
    /\ triggers = {}
    /\ lastOp = "new"

\* Compact forms that reach expandBeatData from a URL: with and without a
\* pattern length, with indices below 0, beyond the default length and
\* beyond the length they carry, and without a sequencer.
CompactInputs ==
    {ForeignCompact,
     [tempo |-> 140, sequencer |-> (DRUM_TYPES[1] :> <<0, 20, -1>>)],
     [tempo |-> 120, patternLength |-> 32,
      sequencer |-> (DRUM_TYPES[1] :> <<5, 17>> @@ DRUM_TYPES[2] :> <<0>>)],
     [tempo |-> 140]}

\* Either a valid pattern to be optimized and expanded, or a compact form
\* to be expanded.
CodecInit ==
    /\ AppIdle("codec")
    /\ StoreIdle
    /\ \/ cIn \in ValidPatterns /\ cOpt = Null
       \/ cIn = Null /\ cOpt \in CompactInputs
    /\ cOut = Null
    /\ AudioIdle
    /\ PageIdle

CodecOptimize ==
    /\ IsNull(cOpt)
    /\ cOpt' = optimizeBeatData(cIn)
    /\ UNCHANGED <<cIn, cOut, appVars, lastOp, storeVars, audioManager, pageVars>>

CodecExpand ==
    /\ ~IsNull(cOpt)
    /\ IsNull(cOut)
    /\ cOut' = expandBeatData(cOpt)
    /\ UNCHANGED <<cIn, cOpt, appVars, lastOp, storeVars, audioManager, pageVars>>

CodecNext == CodecOptimize \/ CodecExpand

SpecCodec == CodecInit /\ [][CodecNext]_vars

(***************************************************************************)
(* BeatStorage on its own: the constructor over whatever text the storage  *)
(* key holds, then the calls of its methods.                               *)
(***************************************************************************)
MaxBeats == 2
MaxNow == 2

NameA == <<"A">>
NameB == <<"B">>
LongName == [i \in 1..(NAME_MAX_LENGTH + 1) |-> "x"]
NameInputs == {NameA, <<" ", "A">>, NameB, <<>>, <<" ">>, LongName}

TemplateData == [createDefaultBeat EXCEPT !.tempo = 140]
DataInputs ==
    {createDefaultBeat, TemplateData,
     expandBeatData(optimizeBeatData(SharedPattern))}

StoredEntry(name) ==
    [name |-> name, data |-> createDefaultBeat, timestamp |-> 0, lastUsed |-> 0]

\* What the storage key can hold when the page loads: nothing, text that is
\* not JSON, JSON that is not an array, a collection, a collection with an
\* entry that lacks its timestamp, and a collection whose entry has a name
\* longer than saveBeat accepts.
StorageInputs ==
    {NoText, GarbageText, ObjectText,
     ArrayText(<<StoredEntry(NameA)>>),
     ArrayText(<<StoredEntry(NameA),
                 [name |-> NameB, data |-> createDefaultBeat, lastUsed |-> 0]>>),
     ArrayText(<<StoredEntry(LongName)>>)}

\* The texts importBeats is given: text that is not JSON, JSON that is not
\* an array, a collection of one entry, and a collection of an entry whose
\* name is longer than saveBeat accepts and an entry without its data.
ImportInputs ==
    {GarbageText, ObjectText,
     ArrayText(<<StoredEntry(NameA)>>),
     ArrayText(<<StoredEntry(LongName), [name |-> NameB, timestamp |-> 0, lastUsed |-> 0]>>)}

StoreInit ==
    /\ AppIdle("storage")
    /\ CodecIdle
    /\ storage \in StorageInputs
    /\ beats = <<>>
    /\ result = Null
    /\ now = 1
    /\ refs = NoRefs
    /\ AudioIdle
    /\ PageIdle

\* new BeatStorage()
NewBeatStorage ==
    /\ phase = "storage"
    /\ phase' = "store"
    /\ LET r == loadAllBeats(beats, storage)
       IN /\ beats' = r.result.items
          /\ storage' = r.text
    /\ lastOp' = "new BeatStorage"
    /\ UNCHANGED <<currentBeat, sequencerManager, rafQueue, status, triggers,
                   codecVars, audioManager, pageVars, result, now, refs>>

StoreCall(r, op) ==
    /\ phase = "store"
    /\ beats' = r.beats
    /\ storage' = r.text
    /\ result' = r.result
    /\ lastOp' = op
    /\ UNCHANGED <<appVars, codecVars, audioManager, pageVars, now, refs>>

SaveBeat(name, data, overwrite) ==
    /\ Len(beats) < MaxBeats \/ findIndex(beats, name) # 0
    /\ StoreCall(saveBeat(beats, storage, name, data, overwrite, now), "saveBeat")

LoadBeat(name) == StoreCall(loadBeat(beats, storage, name, now), "loadBeat")

DeleteBeat(name) == StoreCall(deleteBeat(beats, storage, name), "deleteBeat")

ClearAllBeats == StoreCall(clearAllBeats(beats, storage), "clearAllBeats")

LoadAllBeats == StoreCall(loadAllBeats(beats, storage), "loadAllBeats")

\* beatStorage.getLastUsedBeat()
GetLastUsedBeat ==
    /\ phase = "store"
    /\ result' = getLastUsedBeat(beats)
    /\ lastOp' = "getLastUsedBeat"
    /\ UNCHANGED <<appVars, codecVars, audioManager, pageVars, storage, beats, now, refs>>

\* beatStorage.importBeats(jsonString); the clock moves on while the call
\* waits for a name that is free.
ImportBeats(jsonString) ==
    /\ phase = "store"
    /\ LET r == importBeats(beats, storage, jsonString, now)
       IN /\ Len(r.beats) <= MaxBeats
          /\ r.time <= MaxNow
          /\ beats' = r.beats
          /\ storage' = r.text
          /\ result' = r.result
          /\ now' = r.time
    /\ lastOp' = "importBeats"
    /\ UNCHANGED <<appVars, codecVars, audioManager, pageVars, refs>>

\* BeatStorage.refresh
Refresh ==
    /\ phase = "store"
    /\ LET r == loadAllBeats(beats, storage)
       IN /\ beats' = r.result.items
          /\ storage' = r.text
    /\ lastOp' = "refresh"
    /\ UNCHANGED <<appVars, codecVars, audioManager, pageVars, result, now, refs>>

\* Time passes.
Advance ==
    /\ phase = "store"
    /\ now < MaxNow
    /\ now' = now + 1
    /\ lastOp' = "advance"
    /\ UNCHANGED <<appVars, codecVars, audioManager, pageVars, storage, beats, result, refs>>

StoreNext ==
    \/ NewBeatStorage
    \/ \E name \in NameInputs, data \in DataInputs, overwrite \in BOOLEAN :
           SaveBeat(name, data, overwrite)
    \/ \E name \in NameInputs : LoadBeat(name)
    \/ \E name \in NameInputs : DeleteBeat(name)
    \/ ClearAllBeats
    \/ LoadAllBeats
    \/ Refresh
    \/ Advance

SpecStore == StoreInit /\ [][StoreNext]_vars

(***************************************************************************)
(* BeatStorage with its import: the same calls, and importBeats and        *)
(* getLastUsedBeat, over the data the application saves.                   *)
(***************************************************************************)
\* The current beat after handlePatternLengthChange(8): voices of 8 steps
\* under the pattern length it was created with.
ResizedData == handlePatternLengthChangeBeat(createDefaultBeat, 8)
SavedInputs == {TemplateData, ResizedData}

\* What the storage key holds when the page loads: nothing, text that is
\* not JSON, a collection of one entry, and a collection of two entries with
\* an entry between them that lacks its timestamp.
ImportStorage ==
    {NoText, GarbageText,
     ArrayText(<<StoredEntry(NameA)>>),
     ArrayText(<<StoredEntry(NameB),
                 [name |-> NameB, data |-> createDefaultBeat, lastUsed |-> 0],
                 StoredEntry(NameA)>>)}

ImportInit ==
    /\ AppIdle("storage")
    /\ CodecIdle
    /\ storage \in ImportStorage
    /\ beats = <<>>
    /\ result = Null
    /\ now = 1
    /\ refs = NoRefs
    /\ AudioIdle
    /\ PageIdle

ImportNext ==
    \/ NewBeatStorage
    \/ \E name \in NameInputs, data \in SavedInputs, overwrite \in BOOLEAN :
           SaveBeat(name, data, overwrite)
    \/ \E name \in NameInputs : LoadBeat(name)
    \/ \E name \in NameInputs : DeleteBeat(name)
    \/ ClearAllBeats
    \/ LoadAllBeats
    \/ GetLastUsedBeat
    \/ \E jsonString \in ImportInputs : ImportBeats(jsonString)
    \/ Refresh
    \/ Advance

SpecImport == ImportInit /\ [][ImportNext]_vars

(***************************************************************************)
(* SequencerManager on its own: toggleStep and updateGridSize called with  *)
(* valid and invalid arguments.                                            *)
(***************************************************************************)
\* The voices and steps toggleStep is called with: the input voices and a
\* name that is no voice; the input steps, a negative step, the last step of
\* the shortest grid and the steps at the default and the greatest length.
GridVoices == InputVoices \cup {"cowbell"}
GridSteps == InputSteps \cup {-1, MIN_LENGTH - 1, DEFAULT_LENGTH, MAX_LENGTH}

GridInit ==
    /\ phase = "grid"
    /\ currentBeat = Null
    /\ sequencerManager = NewSequencerManager
    /\ rafQueue = {}
    /\ status = ""
    /\ triggers = {}
    /\ lastOp = "new"
    /\ CodecIdle
    /\ StoreIdle
    /\ AudioIdle
    /\ PageIdle

\* sequencerManager.toggleStep(drumType, stepIndex)
ToggleStep(drumType, stepIndex) ==
    /\ sequencerManager' = toggleStep(sequencerManager, drumType, stepIndex)
    /\ result' = [value |-> toggleStepResult(sequencerManager, drumType, stepIndex)]
    /\ lastOp' = "toggleStep"
    /\ UNCHANGED <<phase, currentBeat, rafQueue, status, triggers, codecVars, audioManager, pageVars,
                   storage, beats, now, refs>>

\* sequencerManager.updateGridSize(newLength)
UpdateGridSize(newLength) ==
    /\ sequencerManager' = updateGridSize(sequencerManager, newLength)
    /\ result' = [value |-> validatePatternLength(newLength)]
    /\ lastOp' = "updateGridSize"
    /\ UNCHANGED <<phase, currentBeat, rafQueue, status, triggers, codecVars, audioManager, pageVars,
                   storage, beats, now, refs>>

GridNext ==
    \/ \E v \in GridVoices, s \in GridSteps : ToggleStep(v, s)
    \/ \E n \in LengthInputs : UpdateGridSize(n)

SpecGrid == GridInit /\ [][GridNext]_vars

(***************************************************************************)
(* The application with its beat storage: the edits of the current beat,   *)
(* DrumMachine.saveBeat and DrumMachine.loadBeat, over a storage that      *)
(* holds nothing or one entry when the page loads.                         *)
(***************************************************************************)
SavedStorage == {NoText, ArrayText(<<StoredEntry(NameA)>>)}
SavedNames == {NameA, NameB}
SavedLengths == {MIN_LENGTH}

\* main.js has made the BeatStorage, which has read the storage, before it
\* makes the DrumMachine.
SavedInit ==
    /\ AppInit
    /\ CodecIdle
    /\ AudioIdle
    /\ PageIdle
    /\ storage \in SavedStorage
    /\ beats = loadAllBeats(<<>>, storage).result.items
    /\ result = Null
    /\ now = 1
    /\ refs = NoRefs

\* DrumMachine.saveBeat(name, overwrite), the callback of the save modal.
\* The entry BeatStorage.saveBeat writes holds the sequencer object of the
\* current beat; the object it returns is truthy whatever it reports.
SaveCurrentBeat(name, overwrite) ==
    /\ phase = "ready"
    /\ Len(beats) < MaxBeats \/ findIndex(beats, name) # 0
    /\ IF IsNull(currentBeat)
       THEN /\ status' = "Failed to save beat"
            /\ result' = [value |-> FALSE]
            /\ UNCHANGED <<storage, beats, refs>>
       ELSE LET r == saveBeat(beats, storage, name, currentBeat, overwrite, now)
                index == IF findIndex(beats, name) # 0
                         THEN findIndex(beats, name)
                         ELSE Len(beats) + 1
            IN /\ beats' = r.beats
               /\ storage' = r.text
               /\ status' = "Beat saved successfully"
               /\ result' = [value |-> TRUE]
               /\ refs' = IF r.result.success
                          THEN [entry |-> IF refs.entry = index THEN 0 ELSE refs.entry,
                                sequencer |->
                                    IF HasSequencer(currentBeat)
                                    THEN refs.sequencer \cup {index}
                                    ELSE refs.sequencer \ {index}]
                          ELSE refs
    /\ lastOp' = "DrumMachine.saveBeat"
    /\ UNCHANGED <<phase, currentBeat, sequencerManager, rafQueue, triggers,
                   codecVars, audioManager, pageVars, now>>

\* DrumMachine.loadBeat(name), the callback of the beat selection modal: the
\* entry BeatStorage.loadBeat returns becomes the current beat.
LoadSavedBeat(name) ==
    /\ phase = "ready"
    /\ LET r == loadBeat(beats, storage, name, now)
       IN /\ beats' = r.beats
          /\ storage' = r.text
          /\ IF IsNull(r.result)
             THEN /\ result' = [value |-> FALSE]
                  /\ UNCHANGED <<currentBeat, sequencerManager, status, refs>>
             ELSE /\ currentBeat' = r.result
                  /\ sequencerManager' = updateSequencerDisplay(sequencerManager, r.result)
                  /\ status' = "Loaded: "
                  /\ result' = [value |-> TRUE]
                  /\ refs' = [entry |-> findIndex(beats, name), sequencer |-> {}]
    /\ lastOp' = "DrumMachine.loadBeat"
    /\ UNCHANGED <<phase, rafQueue, triggers, codecVars, audioManager, pageVars, now>>

SavedNext ==
    \/ \E token \in {NoToken} \cup PlayTokens : Initialize(token)
    \/ \E v \in PlayVoices, s \in PlaySteps : CellClick(v, s)
    \/ \E tempo \in PlayTempos : TempoChange(tempo)
    \/ \E length \in SavedLengths : PatternLengthChange(length)
    \/ Clear
    \/ \E name \in SavedNames, overwrite \in BOOLEAN : SaveCurrentBeat(name, overwrite)
    \/ \E name \in SavedNames : LoadSavedBeat(name)

SpecSaved == SavedInit /\ [][SavedNext]_vars

(***************************************************************************)
(* AudioManager on its own: its methods, and what the browser does to the  *)
(* audio context behind its back.                                          *)
(***************************************************************************)
\* What the AudioContext constructor does when initialize calls it: it
\* throws, or it gives a context that starts suspended or running, or a
\* context of a browser that has neither the state attribute nor the
\* resume function, each made for a desktop or a mobile user agent.
MadeInputs ==
    {[ok |-> FALSE]} \cup
    {[ok |-> TRUE, context |-> NewAudioContext(state, TRUE, mobile)] :
        state \in {"suspended", "running"}, mobile \in BOOLEAN} \cup
    {[ok |-> TRUE, context |-> NewAudioContext("undefined", FALSE, mobile)] :
        mobile \in BOOLEAN}

AudioInit ==
    /\ AppIdle("audio")
    /\ CodecIdle
    /\ StoreIdle
    /\ AudioIdle
    /\ PageIdle

AudioCall(r, op) ==
    /\ phase = "audio"
    /\ audioManager' = r.am
    /\ result' = [value |-> r.value]
    /\ lastOp' = op
    /\ UNCHANGED <<appVars, codecVars, storage, beats, now, refs, pageVars>>

\* await audioManager.initialize()
AudioInitialize(made) == AudioCall(initialize(audioManager, made), "initialize")

\* await audioManager.resumeAudioContext()
ResumeAudioContext(settled) ==
    AudioCall(resumeAudioContext(audioManager, settled), "resumeAudioContext")

\* await audioManager.restoreAudioContext()
RestoreAudioContext(made, settled) ==
    AudioCall(restoreAudioContext(audioManager, made, settled), "restoreAudioContext")

\* audioManager.checkAudioContextHealth()
CheckAudioContextHealth ==
    /\ phase = "audio"
    /\ result' = checkAudioContextHealth(audioManager)
    /\ lastOp' = "checkAudioContextHealth"
    /\ UNCHANGED <<appVars, codecVars, storage, beats, now, audioManager, pageVars, refs>>

\* audioManager.destroy()
Destroy ==
    /\ phase = "audio"
    /\ audioManager' = destroy(audioManager)
    /\ lastOp' = "destroy"
    /\ UNCHANGED <<appVars, codecVars, storeVars, pageVars>>

\* The browser changes the state of the context the manager holds: it
\* suspends or interrupts a running context, ends an interruption, or the
\* context is closed.
DeviceChange(state) ==
    /\ phase = "audio"
    /\ ~IsNull(audioManager.audioContext)
    /\ \/ audioManager.audioContext.state = "running"
          /\ state \in {"suspended", "interrupted", "closed"}
       \/ audioManager.audioContext.state = "interrupted"
          /\ state \in {"running", "closed"}
       \/ audioManager.audioContext.state = "suspended"
          /\ state = "closed"
    /\ audioManager' = [audioManager EXCEPT !.audioContext.state = state]
    /\ lastOp' = "statechange"
    /\ UNCHANGED <<appVars, codecVars, storeVars, pageVars>>

AudioNext ==
    \/ \E made \in MadeInputs : AudioInitialize(made)
    \/ \E settled \in BOOLEAN : ResumeAudioContext(settled)
    \/ \E made \in MadeInputs, settled \in BOOLEAN : RestoreAudioContext(made, settled)
    \/ CheckAudioContextHealth
    \/ Destroy
    \/ \E state \in {"suspended", "running", "interrupted", "closed"} :
           DeviceChange(state)

SpecAudio == AudioInit /\ [][AudioNext]_vars

(***************************************************************************)
(* Properties.                                                             *)
(***************************************************************************)
\* C1: expanding the compact form of a valid pattern gives the pattern
\* back: the same tempo, the same pattern length and the same steps of
\* every voice.
C1_RoundTrip ==
    (~IsNull(cIn) /\ ~IsNull(cOut)) =>
        /\ cOut.tempo = cIn.tempo
        /\ "patternLength" \in DOMAIN cOut
        /\ cOut.patternLength = cIn.patternLength
        /\ cOut.sequencer = cIn.sequencer

\* C2: a tick of a running playback asks the audio engine for exactly the
\* voices whose step at the cursor is active (no voice is ever muted: the
\* program keeps no mute state).
C2_TickTriggersActive ==
    [][lastOp' = "tick" =>
          triggers' = {v \in DrumTypeSet :
                          ArrayGet(sequencerManager.grid[v],
                                   sequencerManager.currentStep)}]_vars

\* C3: while the sequencer is not playing (from the return of stopPlayback
\* to the next start) the browser holds no frame callback, so no tick can
\* run, no step is highlighted, and the cursor is 0.
C3_StoppedIsIdle ==
    (phase = "ready" /\ ~sequencerManager.isPlaying) =>
        /\ rafQueue = {}
        /\ sequencerManager.animationFrame = NoFrame
        /\ sequencerManager.highlighted = {}
        /\ sequencerManager.currentStep = 0

\* C3's case: stopPlayback has just returned, and a frame callback was
\* pending when it was called.
C3_Witness ==
    /\ lastOp = "stop"
    /\ ~sequencerManager.isPlaying
    /\ status = "Stopped"

\* C4: the cursor is always a step of the grid: 0 <= currentStep <
\* patternLength.
C4_CursorInRange ==
    phase = "ready" =>
        /\ sequencerManager.currentStep >= 0
        /\ sequencerManager.currentStep < sequencerManager.patternLength

\* C5: after a pattern-length change to an allowed length n, every voice of
\* the current beat and of the grid has n steps, the steps below the old
\* length are as they were, and the steps from the old length on are false.
C5_ResizeInvariant ==
    [][\A n \in LengthInputs \cap AllowedLengths :
          PatternLengthChange(n) =>
              /\ HasSequencer(currentBeat')
              /\ HasSequencer(currentBeat)
              /\ \A v \in DrumTypeSet :
                    /\ Len(currentBeat'.sequencer[v]) = n
                    /\ Len(sequencerManager'.grid[v]) = n
                    /\ \A i \in 0..(n - 1) :
                          /\ currentBeat'.sequencer[v][i + 1] =
                                 ArrayGet(currentBeat.sequencer[v], i)
                          /\ sequencerManager'.grid[v][i + 1] =
                                 ArrayGet(sequencerManager.grid[v], i)]_vars

\* C6, as stated: saveBeat(name, data, false) for a name that is in the
\* store returns a conflict that carries the existing entry, and changes
\* neither this.beats nor the stored text.
C6_ConflictAlways ==
    [][lastOp' = "saveBeat" => \A name \in NameInputs, data \in DataInputs :
          (findIndex(beats, name) # 0 /\ SaveBeat(name, data, FALSE)) =>
              /\ ~result'.success
              /\ "conflict" \in DOMAIN result'
              /\ result'.existingBeat = getBeatByName(beats, name)
              /\ beats' = beats
              /\ storage' = storage]_vars

\* C6, amended: saveBeat(name, data, false) for a name that is in the store
\* changes neither this.beats nor the stored text and fails; when the name
\* and the data pass validation the failure is a conflict that carries the
\* existing entry, otherwise it is the validation's failure.
C6_ConflictWhenValid ==
    [][lastOp' = "saveBeat" => \A name \in NameInputs, data \in DataInputs :
          (findIndex(beats, name) # 0 /\ SaveBeat(name, data, FALSE)) =>
              /\ ~result'.success
              /\ beats' = beats
              /\ storage' = storage
              /\ IF validateBeatName(name).valid /\ validateBeatData(data).valid
                 THEN /\ "conflict" \in DOMAIN result'
                      /\ result'.conflict
                      /\ result'.existingBeat = getBeatByName(beats, name)
                 ELSE /\ "conflict" \notin DOMAIN result'
                      /\ result'.message \in {validateBeatName(name).message,
                                              validateBeatData(data).message}]_vars

\* C6's case: a saveBeat has just returned a conflict.
C6_Witness ==
    /\ lastOp = "saveBeat"
    /\ "conflict" \in DOMAIN result
    /\ result.existingBeat \in {beats[i] : i \in 1..Len(beats)}

\* C7: constructing the store over text that is not JSON, or not the JSON
\* of an array, leaves an empty collection, a later loadAllBeats returns
\* the empty collection too, and the storage key holds no value.
C7_CorruptionPurge ==
    [][(NewBeatStorage /\ (storage.kind = "garbage"
                              \/ (storage.kind = "json" /\ ~storage.array))) =>
          /\ beats' = <<>>
          /\ loadAllBeats(beats', storage').result.items = <<>>
          /\ storage'.kind = "absent"]_vars

\* C8: initialization with a share token that cannot be decoded ends with
\* the default beat as the current beat.
C8_MalformedTokenGivesDefault ==
    [][Initialize(GarbageToken) => currentBeat' = createDefaultBeat]_vars

\* C9: initialization without a share token and with an empty store ends
\* with the default beat as the current beat.
C9_EmptyStartGivesDefault ==
    [][(Initialize(NoToken) /\ beats = <<>>) =>
          currentBeat' = createDefaultBeat]_vars

\* C10: clearing a beat of an allowed tempo and pattern length sets every
\* step of every voice to false and keeps the tempo and the pattern length.
C10_ClearKeepsTempoAndLength ==
    [][(/\ Clear
        /\ HasSequencer(currentBeat)
        /\ "tempo" \in DOMAIN currentBeat
        /\ currentBeat.tempo >= TEMPO_MIN
        /\ currentBeat.tempo <= TEMPO_MAX
        /\ \A v \in DrumTypeSet :
              Len(currentBeat.sequencer[v]) = sequencerManager.patternLength) =>
          /\ \A v \in DrumTypeSet :
                /\ currentBeat'.sequencer[v] =
                       AllFalse(sequencerManager.patternLength)
                /\ sequencerManager'.grid[v] =
                       AllFalse(sequencerManager.patternLength)
          /\ currentBeat'.tempo = currentBeat.tempo
          /\ sequencerManager'.patternLength = sequencerManager.patternLength]_vars

\* C11: a clear pressed while playback is running stops playback: after it
\* the sequencer is not playing, the cursor is 0 and no frame callback is
\* pending.
C11_ClearStopsPlayback ==
    [][(Clear /\ sequencerManager.isPlaying) =>
          /\ ~sequencerManager'.isPlaying
          /\ sequencerManager'.currentStep = 0
          /\ rafQueue' = {}]_vars

\* C12: on a tick of a playback started at the current beat's tempo, with
\* the tempo in 60..200 and an allowed pattern length, the step duration the
\* clock waits for is (60 / tempo) * 4 / patternLength seconds.
C12_TickInterval ==
    [][(/\ lastOp' = "tick"
        /\ currentBeat.tempo >= TEMPO_MIN
        /\ currentBeat.tempo <= TEMPO_MAX
        /\ sequencerManager.patternLength \in AllowedLengths) =>
          \A cb \in rafQueue :
              cb.bpm = currentBeat.tempo =>
                  SameFraction(stepDuration(cb.bpm),
                               <<60 * 4,
                                 currentBeat.tempo * sequencerManager.patternLength>>)]_vars

\* n ticks in a row, with nothing in between.
RECURSIVE TicksFrom(_, _)
TicksFrom(sm, n) == IF n = 0 THEN sm ELSE TicksFrom(animateStep(sm), n - 1)

\* C13: a tick of a running playback moves the cursor to (currentStep + 1)
\* modulo patternLength and leaves the pattern length alone; a tick taken
\* at cursor 0, followed by patternLength - 1 more ticks, ends at cursor 0.
C13_TickAdvancesByOne ==
    [][lastOp' = "tick" =>
          /\ sequencerManager'.currentStep =
                 (sequencerManager.currentStep + 1) % sequencerManager.patternLength
          /\ sequencerManager'.patternLength = sequencerManager.patternLength
          /\ sequencerManager.currentStep = 0 =>
                 TicksFrom(sequencerManager',
                           sequencerManager.patternLength - 1).currentStep = 0]_vars

\* C13's case: a tick has just wrapped the cursor back to 0.
C13_Witness ==
    /\ lastOp = "tick"
    /\ sequencerManager.isPlaying
    /\ sequencerManager.currentStep = 0

\* C14: at most one frame callback is pending at any time; a
\* SequencerManager.startPlayback while playing changes neither the
\* sequencer nor the pending callbacks, and one while idle sets isPlaying
\* and the cursor 0 and requests the one callback of the clock.
C14_StartIsIdempotent ==
    /\ [](Cardinality(rafQueue) <= 1)
    /\ [][(lastOp' = "play" /\ ~IsNull(currentBeat)) =>
            IF sequencerManager.isPlaying
            THEN /\ sequencerManager' = sequencerManager
                 /\ rafQueue' = rafQueue
            ELSE /\ sequencerManager'.isPlaying
                 /\ sequencerManager'.currentStep = 0
                 /\ \E cb \in rafQueue' :
                       /\ rafQueue' = {cb}
                       /\ cb.id = sequencerManager'.animationFrame]_vars

\* C14's case: play was pressed while playback was running, past step 0.
C14_Witness ==
    /\ lastOp = "play"
    /\ sequencerManager.isPlaying
    /\ sequencerManager.currentStep > 0

\* C15: toggleStep with a voice of the voice set and a step in
\* [0, patternLength) flips that cell, returns the cell's new value and
\* leaves every other cell and field as it was; with an unknown voice or a
\* step out of range it changes nothing.
C15_ToggleStepFlipsOneCell ==
    [][lastOp' = "toggleStep" =>
          \A v \in GridVoices, s \in GridSteps :
              ToggleStep(v, s) =>
                  IF /\ v \in DrumTypeSet
                     /\ s >= 0
                     /\ s < sequencerManager.patternLength
                  THEN /\ sequencerManager'.grid[v][s + 1] =
                              ~sequencerManager.grid[v][s + 1]
                       /\ result'.value = sequencerManager'.grid[v][s + 1]
                       /\ \A w \in DrumTypeSet :
                             \A i \in 1..sequencerManager.patternLength :
                                 (w # v \/ i # s + 1) =>
                                     sequencerManager'.grid[w][i] =
                                         sequencerManager.grid[w][i]
                       /\ [sequencerManager' EXCEPT !.grid = <<>>] =
                              [sequencerManager EXCEPT !.grid = <<>>]
                  ELSE sequencerManager' = sequencerManager]_vars

\* C15's case: a toggleStep has just set a cell.
C15_Witness ==
    /\ lastOp = "toggleStep"
    /\ result.value
    /\ \E v \in InputVoices, s \in InputSteps :
          /\ s < sequencerManager.patternLength
          /\ sequencerManager.grid[v][s + 1]

\* C16: a pattern-length change to a value that is not an allowed length
\* changes neither the current beat nor the sequencer.
C16_BadLengthRejected ==
    [][\A n \in LengthInputs \ AllowedLengths :
          PatternLengthChange(n) =>
              /\ currentBeat' = currentBeat
              /\ sequencerManager' = sequencerManager]_vars

\* C17: the tempo of the current beat is always in 60..200.
C17_TempoInRange ==
    (~IsNull(currentBeat) /\ "tempo" \in DOMAIN currentBeat) =>
        /\ currentBeat.tempo >= TEMPO_MIN
        /\ currentBeat.tempo <= TEMPO_MAX

C19_ExpandUsesEffectiveLength ==
    (~IsNull(cOpt) /\ ~IsNull(cOut) /\ "sequencer" \in DOMAIN cOpt) =>
        LET n == IF "patternLength" \in DOMAIN cOpt
                 THEN cOpt.patternLength ELSE DEFAULT_LENGTH
        IN /\ DOMAIN cOut.sequencer = DrumTypeSet
           /\ \A v \in DrumTypeSet :
                 /\ Len(cOut.sequencer[v]) = n
                 /\ \A i \in 0..(n - 1) :
                       ArrayGet(cOut.sequencer[v], i) =
                           /\ v \in DOMAIN cOpt.sequencer
                           /\ \E k \in 1..Len(cOpt.sequencer[v]) :
                                 cOpt.sequencer[v][k] = i

\* C20: the compact form of a pattern has exactly the voices that have a
\* true step, and lists for each of them exactly the indices of its true
\* steps, in ascending order.
C20_CompactListsActiveSteps ==
    (~IsNull(cIn) /\ ~IsNull(cOpt)) =>
        /\ DOMAIN cOpt.sequencer =
               {v \in DrumTypeSet :
                   \E i \in 1..Len(cIn.sequencer[v]) : cIn.sequencer[v][i]}
        /\ \A v \in DOMAIN cOpt.sequencer :
              /\ {cOpt.sequencer[v][k] : k \in 1..Len(cOpt.sequencer[v])} =
                     {i - 1 : i \in {j \in 1..Len(cIn.sequencer[v]) :
                                        cIn.sequencer[v][j]}}
              /\ \A k \in 1..(Len(cOpt.sequencer[v]) - 1) :
                    cOpt.sequencer[v][k] < cOpt.sequencer[v][k + 1]

\* C20's case: a compact form that lists two steps of the first voice and
\* omits the second voice.
C20_Witness ==
    /\ ~IsNull(cIn)
    /\ ~IsNull(cOpt)
    /\ DOMAIN cOpt.sequencer = {DRUM_TYPES[1]}
    /\ Len(cOpt.sequencer[DRUM_TYPES[1]]) = 2

\* C21: no two entries of the store have the same name, whatever calls of
\* saveBeat, deleteBeat, loadBeat and importBeats came before.
C21_NamesUnique ==
    \A i, j \in 1..Len(beats) : i # j => beats[i].name # beats[j].name

\* C22: a step of saveBeat that replaces an entry keeps that entry's
\* timestamp, the time of its creation; loadBeat keeps it too.
C22_TimestampKept ==
    [][(lastOp' \in {"saveBeat", "loadBeat"} /\ Len(beats') = Len(beats)) =>
           \A i \in 1..Len(beats) : beats'[i].timestamp = beats[i].timestamp]_vars

WellFormedEntry(beat) ==
    /\ Len(trim(beat.name)) > 0
    /\ Len(trim(beat.name)) <= NAME_MAX_LENGTH
    /\ beat.data.tempo >= TEMPO_MIN
    /\ beat.data.tempo <= TEMPO_MAX
    /\ beat.data.patternLength \in AllowedLengths
    /\ \A v \in DOMAIN beat.data.sequencer :
          Len(beat.data.sequencer[v]) = beat.data.patternLength

\* C26: saveBeat, importBeats, loadBeat and deleteBeat leave a store of
\* well-formed entries a store of well-formed entries.
C26_EntriesStayWellFormed ==
    [][(/\ lastOp' \in {"saveBeat", "importBeats", "loadBeat", "deleteBeat"}
        /\ \A i \in 1..Len(beats) : WellFormedEntry(beats[i])) =>
           \A i \in 1..Len(beats') : WellFormedEntry(beats'[i])]_vars

\* The entries a stored text holds: those of the array it encodes, none
\* when the key is absent.
StoredEntries(text) ==
    IF text.kind = "json" /\ text.array THEN text.items ELSE <<>>

C28_LastUsedIsFirstMaximum ==
    lastOp = "getLastUsedBeat" =>
        IF Len(beats) = 0
        THEN result = Null
        ELSE \E i \in 1..Len(beats) :
                /\ result = beats[i]
                /\ \A j \in 1..Len(beats) : beats[j].lastUsed <= beats[i].lastUsed
                /\ \A j \in 1..(i - 1) : beats[j].lastUsed < beats[i].lastUsed

\* C28's case: two different entries of the same lastUsed, and
\* getLastUsedBeat has returned the first.
C28_Witness ==
    /\ lastOp = "getLastUsedBeat"
    /\ Len(beats) = 2
    /\ beats[1].lastUsed = beats[2].lastUsed
    /\ beats[1] # beats[2]
    /\ result = beats[1]

\* C29: the state a clear leaves is the state a second clear would leave:
\* the current beat is the default beat, and showing it again changes
\* nothing of the sequencer, neither its grid nor its play state, its
\* cursor, its pending frame or its highlight; the status text and the
\* pending callbacks are the same too.
C29_ClearIsIdempotent ==
    [][lastOp' = "clear" =>
           /\ currentBeat' = clearBeat
           /\ updateSequencerDisplay(sequencerManager', clearBeat) = sequencerManager'
           /\ status' = "Beat cleared"]_vars

\* C29's case: a clear during playback, with the cursor past the first step
\* of a grid that is not of the default length.
C29_Witness ==
    /\ lastOp = "clear"
    /\ sequencerManager.isPlaying
    /\ sequencerManager.currentStep > 0
    /\ sequencerManager.patternLength # DEFAULT_LENGTH
    /\ rafQueue # {}

\* C30: resumeAudioContext resolves to true and leaves the manager as it
\* was when the context is running; for a suspended context it resolves to
\* true exactly when resume() has put the context in the running state, and
\* changes nothing else; it resolves to false and changes nothing when the
\* context is closed and when the manager has no context or is not
\* initialized.
C30_ResumeByState ==
    [][lastOp' = "resumeAudioContext" =>
           IF ~ContextAvailable(audioManager)
           THEN result' = [value |-> FALSE] /\ audioManager' = audioManager
           ELSE /\ audioManager.audioContext.state = "running" =>
                      result' = [value |-> TRUE] /\ audioManager' = audioManager
                /\ audioManager.audioContext.state = "closed" =>
                      result' = [value |-> FALSE] /\ audioManager' = audioManager
                /\ audioManager.audioContext.state = "suspended" =>
                      /\ audioManager' \in
                             {audioManager,
                              [audioManager EXCEPT !.audioContext.state = "running"]}
                      /\ result'.value = (audioManager'.audioContext.state = "running")]_vars

\* C30's case: resumeAudioContext has resolved to false on an initialized
\* manager whose context is closed.
C30_Witness ==
    /\ lastOp = "resumeAudioContext"
    /\ ContextAvailable(audioManager)
    /\ audioManager.audioContext.state = "closed"
    /\ result = [value |-> FALSE]

\* C24: a step toggle, a tempo change or a pattern-length change of the
\* current beat leaves the pattern data of every entry of the store as it
\* was.
C24_EditsLeaveEntries ==
    [][lastOp' \in {"click", "tempo", "length"} =>
           /\ Len(beats') = Len(beats)
           /\ \A i \in 1..Len(beats) : beats'[i].data = beats[i].data]_vars

\* C25: once loadBeat or loadLastUsedBeat has loaded an entry, the current
\* beat has the tempo, the pattern length and the voices of the entry's
\* data, and the grid of the sequencer has the steps of those voices.
C25_LoadedEntryIsCurrent ==
    [][(lastOp' \in {"DrumMachine.loadBeat", "initialize"} /\ status' = "Loaded: ") =>
           LET data == beats'[refs'.entry].data
           IN /\ HasSequencer(currentBeat')
              /\ "tempo" \in DOMAIN currentBeat'
              /\ "patternLength" \in DOMAIN currentBeat'
              /\ currentBeat'.tempo = data.tempo
              /\ currentBeat'.patternLength = data.patternLength
              /\ currentBeat'.sequencer = data.sequencer
              /\ sequencerManager'.patternLength = data.patternLength
              /\ \A v \in DrumTypeSet :
                    sequencerManager'.grid[v] = data.sequencer[v]]_vars

\* C31: once the context of an initialized manager is closed,
\* resumeAudioContext, restoreAudioContext and checkAudioContextHealth
\* leave the manager without a suspended or running context.
C31_ClosedIsTerminal ==
    [][(/\ lastOp' \in {"resumeAudioContext", "restoreAudioContext",
                        "checkAudioContextHealth"}
        /\ ContextAvailable(audioManager)
        /\ audioManager.audioContext.state = "closed") =>
           ~(/\ ContextAvailable(audioManager')
             /\ audioManager'.audioContext.state \in {"suspended", "running"})]_vars


(***************************************************************************)
(* The application with its audio: the page's interaction listeners, the   *)
(* audio health check timer, playback, and what the browser does to the    *)
(* audio context meanwhile.                                                *)
(***************************************************************************)
\* The callback of startAudioHealthCheck's interval: it asks for the health
\* of the context and warns on the console when it is not healthy.
audioHealthCheckResuming(am) ==
    [am |-> resumeAudioContext(am, TRUE).am,
     warned |-> ~checkAudioContextHealth(am).healthy]

audioHealthCheck(am) ==
    [am |-> am, warned |-> ~checkAudioContextHealth(am).healthy]

\* resumeAudioOnInteraction, the document's click, touchstart and keydown
\* listener: nothing for an event on the piano header, else
\* audioManager.resumeAudioContext, whose promise settles or rejects.
resumeAudioOnInteraction(am, onPianoHeader, settled) ==
    IF onPianoHeader THEN am ELSE resumeAudioContext(am, settled).am

\* The AudioContext constructor on the pages of the session: it throws, or
\* gives a desktop context that starts suspended or running.
SessionAudio ==
    {[ok |-> FALSE]} \cup
    {[ok |-> TRUE, context |-> NewAudioContext(state, TRUE, FALSE)] :
        state \in {"suspended", "running"}}

\* A click, touch or key press anywhere on the page.
Interaction(onPianoHeader, settled) ==
    /\ phase = "ready"
    /\ audioManager' = resumeAudioOnInteraction(audioManager, onPianoHeader, settled)
    /\ lastOp' = "interaction"
    /\ UNCHANGED <<appVars, codecVars, storeVars, pageVars>>

\* The audio health check timer fires.
AudioHealthCheck ==
    /\ phase = "ready"
    /\ audioManager' = audioHealthCheck(audioManager).am
    /\ result' = [value |-> audioHealthCheck(audioManager).warned]
    /\ lastOp' = "healthCheck"
    /\ UNCHANGED <<appVars, codecVars, storage, beats, now, refs, pageVars>>

\* The browser changes the state of the page's context, as in DeviceChange.
ContextStateChange(state) ==
    /\ phase = "ready"
    /\ ~IsNull(audioManager.audioContext)
    /\ \/ audioManager.audioContext.state = "running"
          /\ state \in {"suspended", "interrupted", "closed"}
       \/ audioManager.audioContext.state = "interrupted"
          /\ state \in {"running", "closed"}
       \/ audioManager.audioContext.state = "suspended"
          /\ state = "closed"
    /\ audioManager' = [audioManager EXCEPT !.audioContext.state = state]
    /\ lastOp' = "statechange"
    /\ UNCHANGED <<appVars, codecVars, storeVars, pageVars>>

SessionFrame == \E cb \in rafQueue, elapsed \in BOOLEAN : Frame(cb, elapsed)

SessionNext ==
    \/ \E token \in PlayTokens \cup {NoToken}, made \in SessionAudio :
           InitializeApp(token, made)
    \/ \E onPianoHeader \in BOOLEAN, settled \in BOOLEAN :
           Interaction(onPianoHeader, settled)
    \/ AudioHealthCheck
    \/ \E state \in {"suspended", "running", "interrupted", "closed"} :
           ContextStateChange(state)
    \/ \E v \in PlayVoices, s \in PlaySteps : CellClick(v, s)
    \/ Play
    \/ Stop
    \/ SessionFrame

SpecSession == Init /\ [][SessionNext]_vars

\* The timer keeps firing and the browser keeps running animation frames.
SpecSessionFair ==
    /\ SpecSession
    /\ WF_vars(AudioHealthCheck)
    /\ WF_vars(SessionFrame)

DeviceClosed ==
    /\ ContextAvailable(audioManager)
    /\ audioManager.audioContext.state = "closed"

PlaybackRunning ==
    /\ ~IsNull(sequencerManager)
    /\ sequencerManager.isPlaying

\* C32: when the audio device is closed while playback is running, playback
\* comes to a stop: the sequencer is idle with no animation frame pending.
C32_ClosedStopsPlayback ==
    (DeviceClosed /\ PlaybackRunning) ~> (~PlaybackRunning /\ rafQueue = {})


\* C35: the context of the page goes from suspended to running only in the
\* page's interaction listener, and the audio health check timer leaves
\* the audio manager and its context as they were.
C35_ResumeOnlyOnInteraction ==
    [][/\ (/\ ContextAvailable(audioManager)
           /\ audioManager.audioContext.state = "suspended"
           /\ ContextAvailable(audioManager')
           /\ audioManager'.audioContext.state = "running") =>
              lastOp' = "interaction"
       /\ lastOp' = "healthCheck" => audioManager' = audioManager]_vars

C35_Witness ==
    /\ lastOp = "healthCheck"
    /\ ContextAvailable(audioManager)
    /\ audioManager.audioContext.state = "suspended"
    /\ result = [value |-> TRUE]


(***************************************************************************)
(* The sample files on their own: the module is loaded over saved          *)
(* selections, then sounds are changed and samples are loaded.             *)
(***************************************************************************)
\* A file that is in no collection, as an older version may have saved it.
StaleFile == "sounds/Kicks/old_kick.wav"

\* What the selections key of the storage holds: nothing, text that does
\* not parse, or selections for some voices.
SavedSelections ==
    {Null, [garbage |-> TRUE],
     [selections |-> ("kick" :> "sounds/Kicks/short_kick.wav")],
     [selections |-> ("kick" :> StaleFile @@
                      "snare" :> "sounds/Snares/STACKERY_1.wav")]}

SampleTypes == DOMAIN SOUND_COLLECTIONS \cup {"cowbell"}

FetchOutcomes == {"ok", "status", "reject"}

SampleInit ==
    /\ AppIdle("samples")
    /\ CodecIdle
    /\ StoreIdle
    /\ AudioIdle
    /\ ModalIdle
    /\ \E saved \in SavedSelections :
           currentSoundSelections = initializeSoundSelections(saved)
    /\ requests = <<>>

\* The sound selector of a voice picks one of its options.
ChangeSound(drumType, soundFile) ==
    /\ phase = "samples"
    /\ currentSoundSelections' =
           changeSound(currentSoundSelections, drumType, soundFile)
    /\ requests' = <<>>
    /\ result' = Null
    /\ lastOp' = "changeSound"
    /\ UNCHANGED <<appVars, codecVars, storage, beats, now, refs, audioManager,
                   modalVars>>

\* await loadSample(audioContext, drumType)
LoadSample(drumType, first, second, decoded) ==
    /\ phase = "samples"
    /\ LET r == loadSample(currentSoundSelections, drumType, first, second, decoded)
       IN /\ currentSoundSelections' = r.selections
          /\ requests' = r.requests
          /\ result' = [value |-> r.value]
    /\ lastOp' = "loadSample"
    /\ UNCHANGED <<appVars, codecVars, storage, beats, now, refs, audioManager,
                   modalVars>>

SampleNext ==
    \/ \E drumType \in DOMAIN SOUND_COLLECTIONS :
           \E soundFile \in SOUND_COLLECTIONS[drumType].options :
               ChangeSound(drumType, soundFile)
    \/ \E drumType \in SampleTypes, first \in FetchOutcomes,
          second \in FetchOutcomes, decoded \in BOOLEAN :
           LoadSample(drumType, first, second, decoded)

SpecSample == SampleInit /\ [][SampleNext]_vars

\* C33: a loadSample whose request for the selected file of a voice fails,
\* by rejecting or with a status that is not OK, returns null only after a
\* request for the default file of the voice has failed too.
C33_DefaultTriedBeforeNull ==
    [][(/\ lastOp' = "loadSample"
        /\ requests' # <<>>
        /\ requests'[1].outcome \in {"status", "reject"}
        /\ IsNull(result'.value)) =>
           \E i \in 1..Len(requests') :
               /\ \E drumType \in DOMAIN SOUND_COLLECTIONS :
                      /\ requests'[1].file = currentSoundSelections[drumType]
                      /\ requests'[i].file = SOUND_COLLECTIONS[drumType].default
               /\ requests'[i].outcome # "ok"]_vars


\* C34: whenever there is a current beat with voices, every voice of it
\* has as many steps as the pattern length of the sequencer grid.
C34_VoicesMatchPatternLength ==
    (phase = "ready" /\ ~IsNull(currentBeat) /\ HasSequencer(currentBeat)) =>
        \A drumType \in DOMAIN currentBeat.sequencer :
            Len(currentBeat.sequencer[drumType]) = sequencerManager.patternLength


\* C36: DrumMachine.saveBeat with a current beat returns true exactly when
\* BeatStorage.saveBeat reports success, and shows the beat-saved status
\* only then.
C36_SavedOnlyOnSuccess ==
    [][\A name \in SavedNames, overwrite \in BOOLEAN :
           (SaveCurrentBeat(name, overwrite) /\ ~IsNull(currentBeat)) =>
               LET success == saveBeat(beats, storage, name, currentBeat,
                                       overwrite, now).result.success
               IN /\ result'.value <=> success
                  /\ status' = "Beat saved successfully" => success]_vars


\* C37: whenever there is a current beat, every cell of the sequencer grid
\* is a cell of the current beat and has its value.
C37_GridEqualsPattern ==
    (phase = "ready" /\ ~IsNull(currentBeat)) =>
        /\ HasSequencer(currentBeat)
        /\ \A drumType \in DrumTypeSet, i \in 1..sequencerManager.patternLength :
               /\ drumType \in DOMAIN currentBeat.sequencer
               /\ i <= Len(currentBeat.sequencer[drumType])
               /\ sequencerManager.grid[drumType][i] =
                      currentBeat.sequencer[drumType][i]


(***************************************************************************)
(* BeatStorage over a storage that may refuse a write.                     *)
(***************************************************************************)
SaveBeatStorageFull(name, data, overwrite) ==
    /\ Len(beats) < MaxBeats \/ findIndex(beats, name) # 0
    /\ StoreCall(saveBeatStorageFull(beats, storage, name, data, overwrite, now),
                 "saveBeat, storage full")

DeleteBeatStorageFull(name) ==
    StoreCall(deleteBeatStorageFull(beats, storage, name),
              "deleteBeat, storage full")

QuotaNext ==
    \/ NewBeatStorage
    \/ \E name \in SavedNames, data \in DataInputs, overwrite \in BOOLEAN :
           SaveBeat(name, data, overwrite)
    \/ \E name \in SavedNames, data \in DataInputs, overwrite \in BOOLEAN :
           SaveBeatStorageFull(name, data, overwrite)
    \/ \E name \in SavedNames : DeleteBeat(name)
    \/ \E name \in SavedNames : DeleteBeatStorageFull(name)
    \/ Refresh

SpecQuota == StoreInit /\ [][QuotaNext]_vars

\* C38: a saveBeat or deleteBeat during which the write to the storage
\* fails reports failure and leaves the in-memory collection as it was.
C38_FailedWriteKeepsMemory ==
    [][lastOp' \in {"saveBeat, storage full", "deleteBeat, storage full"} =>
           /\ ~result'.success
           /\ beats' = beats]_vars


(***************************************************************************)
(* ModalManager on its own: the two modals are shown and hidden, and the   *)
(* hide timers fire in the order they were set.                            *)
(***************************************************************************)
MaxTimers == 3

ModalIds == {"beat-selection-modal", "save-beat-modal"}

ModalInit ==
    /\ AppIdle("modals")
    /\ CodecIdle
    /\ StoreIdle
    /\ AudioIdle
    /\ PageIdle

\* showBeatSelectionModal() and showSaveBeatModal()
ShowModal(modalId, op) ==
    /\ phase = "modals"
    /\ Len(timers) < MaxTimers
    /\ LET made == createModal(modalManager, modalId)
           r == showModal(made, body, timers, [id |-> modalId])
       IN /\ modalManager' = r.mm
          /\ body' = r.body
          /\ timers' = r.timers
    /\ result' = [value |-> TRUE]
    /\ lastOp' = op
    /\ UNCHANGED <<appVars, codecVars, storage, beats, now, refs, audioManager,
                   sampleVars>>

ShowBeatSelectionModal == ShowModal("beat-selection-modal", "showBeatSelectionModal")

ShowSaveBeatModal == ShowModal("save-beat-modal", "showSaveBeatModal")

\* hideBeatSelectionModal() and hideSaveBeatModal()
HideModal(modalId) ==
    /\ phase = "modals"
    /\ Len(timers) < MaxTimers
    /\ timers' = hideModal(modalManager, timers, modalId).timers
    /\ result' = [value |-> hideModal(modalManager, timers, modalId).value]
    /\ lastOp' = "hideModal"
    /\ UNCHANGED <<appVars, codecVars, storage, beats, now, refs, audioManager,
                   sampleVars, modalManager, body>>

\* handleBackdropClick and handleEscapeKey
HideActiveModal ==
    /\ phase = "modals"
    /\ Len(timers) < MaxTimers
    /\ ~IsNull(modalManager.activeModal)
    /\ timers' = hideModal(modalManager, timers, modalManager.activeModal.id).timers
    /\ lastOp' = "hideModal"
    /\ UNCHANGED <<appVars, codecVars, storeVars, audioManager, sampleVars,
                   modalManager, body>>

\* The browser runs the hide timer that is due first.  lastOp keeps the
\* last call of a method of the manager.
HideModalTimeout ==
    /\ phase = "modals"
    /\ timers # <<>>
    /\ LET r == hideModalTimeout(modalManager, body, Head(timers))
       IN /\ modalManager' = r.mm
          /\ body' = r.body
    /\ timers' = Tail(timers)
    /\ UNCHANGED <<appVars, codecVars, storeVars, audioManager, sampleVars, lastOp>>

ModalNext ==
    \/ ShowBeatSelectionModal
    \/ ShowSaveBeatModal
    \/ \E modalId \in ModalIds : HideModal(modalId)
    \/ HideActiveModal
    \/ HideModalTimeout

SpecModal == ModalInit /\ [][ModalNext]_vars

\* The modal the last call of the manager showed, or none.
LastShown ==
    IF lastOp = "showBeatSelectionModal" THEN {[id |-> "beat-selection-modal"]}
    ELSE IF lastOp = "showSaveBeatModal" THEN {[id |-> "save-beat-modal"]}
    ELSE {}

\* C39: when the last call of the manager was a showModal of a modal and
\* no hide timer is pending, the modal is on the page and is the active
\* modal.
C39_ShownModalStays ==
    \A modal \in LastShown :
        timers = <<>> => (modal \in body /\ modalManager.activeModal = modal)


\* The clock of a pending animate callback: what it is closed over.
Clock(cb) == [field \in DOMAIN cb \ {"id"} |-> cb[field]]

Clocks(queue) == {Clock(cb) : cb \in queue}

=============================================================================
